---- MODULE Spec2Model ----
(***************************************************************************)
(* A model of the request-dispatch core of nickel (cburgdorf/Floor):       *)
(*   - PathUtils / Router      (src/src/router.rs)                         *)
(*   - MiddlewareStack.invoke  (src/src/middleware.rs)                     *)
(*   - Nickel                  (src/src/nickel.rs)                         *)
(* Strings are sequences of one-character strings.  The static regex       *)
(* fragments of router.rs (VAR_SEQ, ...) are kept as atomic items of a     *)
(* compiled expression, and so is the ___DOUBLE_WILDCARD___ marker.         *)
(***************************************************************************)
EXTENDS Integers, Sequences, FiniteSets, TLC

(***************************************************************************)
(* Bounds of the model.                                                    *)
(***************************************************************************)
\* the registrations (routes, middlewares, error handlers) of one application
MaxRegistrations == 4

\* the routes of the route table match_route is tried on
MaxTable == 2

\* the segments of a route pattern built from pattern segments
MaxPatternSegments == 3

\* the segments of a request path built from path segments
MaxPathSegments == 4

\* the characters of a literal route pattern after its first '/'
MaxLiteralLength == 3

\* the requests that call Response::render at the same time
MaxRenderers == 3

\* the registrations of the application whose stack concurrent requests share
MaxStack == 2

\* the writes into the stream of one response
MaxWrites == 2

\* the middlewares of an application that registers its routes through
\* Nickel::add_route
MaxChain == 3

(***************************************************************************)
(* Characters and the character classes of router.rs                       *)
(***************************************************************************)
Lower == {"a","b","c","d","e","f","g","h","i","j","k","l","m",
          "n","o","p","q","r","s","t","u","v","w","x","y","z"}

Upper == {"A","B","C","D","E","F","G","H","I","J","K","L","M",
          "N","O","P","Q","R","S","T","U","V","W","X","Y","Z"}

Digit == {"0","1","2","3","4","5","6","7","8","9"}

\* the class of a variable's value with the characters of a query string in it
VarChars_with_query == Lower \cup Upper \cup Digit \cup {",", "_", "-", "?", "=", "&"}

\* the class of a variable's value with the separator of segments in it
VarChars_with_slash == Lower \cup Upper \cup Digit \cup {",", "_", "-", "/"}

\* the class of a variable's value without the comma
VarChars_no_comma == Lower \cup Upper \cup Digit \cup {"_", "-"}

\* [,a-zA-Z0-9_-]
VarChars == Lower \cup Upper \cup Digit \cup {",", "_", "-"}

\* [,/a-zA-Z0-9_-]
VarCharsWithSlash == VarChars \cup {"/"}

\* [a-zA-Z0-9_=&-]
ParamChars == Lower \cup Upper \cup Digit \cup {"_", "=", "&", "-"}

VAR_SEQ == "[,a-zA-Z0-9_-]*"

VAR_SEQ_WITH_SLASH == "[,/a-zA-Z0-9_-]*"

VAR_SEQ_WITH_CAPTURE == "([,a-zA-Z0-9_-]*)"

REGEX_PARAM_SEQ == "(\\?[a-zA-Z0-9_=&-]*)?"

REGEX_START == "^"

REGEX_END == "$"

DOUBLE_WILDCARD == "___DOUBLE_WILDCARD___"

(***************************************************************************)
(* String helpers                                                          *)
(***************************************************************************)
Last(seq) == seq[Len(seq)]

\* s[from..] starts with the sequence pat
StartsWithAt(s, from, pat) ==
    /\ from + Len(pat) - 1 <= Len(s)
    /\ \A k \in 1..Len(pat) : s[from + k - 1] = pat[k]

\* str::replace: every non-overlapping occurrence of pat, left to right
RECURSIVE ReplaceFrom(_, _, _, _)
ReplaceFrom(s, from, pat, to) ==
    IF from > Len(s) THEN <<>>
    ELSE IF StartsWithAt(s, from, pat)
         THEN to \o ReplaceFrom(s, from + Len(pat), pat, to)
         ELSE <<s[from]>> \o ReplaceFrom(s, from + 1, pat, to)

Replace(s, pat, to) == ReplaceFrom(s, 1, pat, to)

\* the length of the longest run of characters of class cls in s that starts at from
RECURSIVE RunLen(_, _, _)
RunLen(s, from, cls) ==
    IF from <= Len(s) /\ s[from] \in cls
    THEN 1 + RunLen(s, from + 1, cls)
    ELSE 0

(***************************************************************************)
(* REGEX_VAR_SEQ: a colon followed by a run of VarChars, the run captured  *)
(***************************************************************************)
\* REGEX_VAR_SEQ.replace_all(s, to)
RECURSIVE VarSeqReplaceAll(_, _, _)
VarSeqReplaceAll(s, from, to) ==
    IF from > Len(s) THEN <<>>
    ELSE IF s[from] = ":"
         THEN <<to>> \o VarSeqReplaceAll(s, from + 1 + RunLen(s, from + 1, VarChars), to)
         ELSE <<s[from]>> \o VarSeqReplaceAll(s, from + 1, to)

\* REGEX_VAR_SEQ.captures_iter(s), each match's group 1, in order
RECURSIVE VarSeqCaptures(_, _)
VarSeqCaptures(s, from) ==
    IF from > Len(s) THEN <<>>
    ELSE IF s[from] = ":"
         THEN LET n == RunLen(s, from + 1, VarChars)
              IN  <<SubSeq(s, from + 1, from + n)>> \o VarSeqCaptures(s, from + 1 + n)
         ELSE VarSeqCaptures(s, from + 1)

(***************************************************************************)
(* PathUtils                                                               *)
(***************************************************************************)
\* the compiler that gives the single wildcard a capture group of its own
create_regex_wildcard_captures(route_path) ==
    LET updated_path ==
            Replace(Replace(Replace(route_path, <<"*", "*">>, <<DOUBLE_WILDCARD>>),
                            <<"*">>, <<VAR_SEQ_WITH_CAPTURE>>),
                    <<DOUBLE_WILDCARD>>, <<VAR_SEQ_WITH_SLASH>>)
    IN  <<REGEX_START>> \o VarSeqReplaceAll(updated_path, 1, VAR_SEQ_WITH_CAPTURE)
                        \o <<REGEX_PARAM_SEQ>> \o <<REGEX_END>>

\* the compiler that gives the single wildcard the class with the '/'
create_regex_wildcard_crosses(route_path) ==
    LET updated_path ==
            Replace(Replace(Replace(route_path, <<"*", "*">>, <<DOUBLE_WILDCARD>>),
                            <<"*">>, <<VAR_SEQ_WITH_SLASH>>),
                    <<DOUBLE_WILDCARD>>, <<VAR_SEQ_WITH_SLASH>>)
    IN  <<REGEX_START>> \o VarSeqReplaceAll(updated_path, 1, VAR_SEQ_WITH_CAPTURE)
                        \o <<REGEX_PARAM_SEQ>> \o <<REGEX_END>>

\* the compiler that replaces the marked double wildcards by the class without '/'
create_regex_double_as_single(route_path) ==
    LET updated_path ==
            Replace(Replace(Replace(route_path, <<"*", "*">>, <<DOUBLE_WILDCARD>>),
                            <<"*">>, <<VAR_SEQ>>),
                    <<DOUBLE_WILDCARD>>, <<VAR_SEQ>>)
    IN  <<REGEX_START>> \o VarSeqReplaceAll(updated_path, 1, VAR_SEQ_WITH_CAPTURE)
                        \o <<REGEX_PARAM_SEQ>> \o <<REGEX_END>>

\* the compiler that replaces the single wildcards before it marks the double ones
create_regex_unmarked(route_path) ==
    LET updated_path ==
            Replace(Replace(Replace(route_path, <<"*">>, <<VAR_SEQ>>),
                            <<"*", "*">>, <<DOUBLE_WILDCARD>>),
                    <<DOUBLE_WILDCARD>>, <<VAR_SEQ_WITH_SLASH>>)
    IN  <<REGEX_START>> \o VarSeqReplaceAll(updated_path, 1, VAR_SEQ_WITH_CAPTURE)
                        \o <<REGEX_PARAM_SEQ>> \o <<REGEX_END>>

\* what create_regex leaves in place of a Regex when it ends in fail!: the
\* task unwinds and the caller gets nothing back
Unwinding == <<"fail!">>

\* an expression has a parenthesis of the route path that is closed without
\* being open, or is still open at its end (the items the statics stand for
\* are balanced in themselves)
RECURSIVE Unbalanced(_, _, _)
Unbalanced(result, k, depth) ==
    IF k > Len(result) THEN depth # 0
    ELSE IF result[k] = "(" THEN Unbalanced(result, k + 1, depth + 1)
    ELSE IF result[k] = ")" THEN depth = 0 \/ Unbalanced(result, k + 1, depth - 1)
    ELSE Unbalanced(result, k + 1, depth)

\* Regex::new: Err for an expression with unbalanced parentheses, else the
\* compiled expression
Regex_new(result) ==
    IF Unbalanced(result, 1, 0)
    THEN [ok |-> FALSE, re |-> <<>>]
    ELSE [ok |-> TRUE,  re |-> result]

create_regex(route_path) ==
    LET updated_path ==
            Replace(Replace(Replace(route_path, <<"*", "*">>, <<DOUBLE_WILDCARD>>),
                            <<"*">>, <<VAR_SEQ>>),
                    <<DOUBLE_WILDCARD>>, <<VAR_SEQ_WITH_SLASH>>)
        result ==
            <<REGEX_START>> \o VarSeqReplaceAll(updated_path, 1, VAR_SEQ_WITH_CAPTURE)
                            \o <<REGEX_PARAM_SEQ>> \o <<REGEX_END>>
        compiled == Regex_new(result)
    IN  IF compiled.ok THEN compiled.re ELSE Unwinding

\* the mapping that counts the variables from one
get_variable_info_from_one(route_path) ==
    LET names == VarSeqCaptures(route_path, 1)
        last(n) == CHOOSE i \in 1..Len(names) :
                      /\ names[i] = n
                      /\ \A k \in (i+1)..Len(names) : names[k] # n
    IN  [n \in {names[i] : i \in 1..Len(names)} |-> last(n)]

\* enumerate().map(|(i, matched)| (name, i)).collect(): a later pair with the
\* same name replaces the earlier one
get_variable_info(route_path) ==
    LET names == VarSeqCaptures(route_path, 1)
        last(n) == CHOOSE i \in 1..Len(names) :
                      /\ names[i] = n
                      /\ \A k \in (i+1)..Len(names) : names[k] # n
    IN  [n \in {names[i] : i \in 1..Len(names)} |-> last(n) - 1]

(***************************************************************************)
(* The regex engine on a compiled expression (a sequence of items):        *)
(* leftmost-first matching, greedy repetition, groups numbered from 1.     *)
(***************************************************************************)
NoCaptures == [ok |-> FALSE, caps |-> <<>>]


ItemClass(item) ==
    IF item = VAR_SEQ_WITH_SLASH THEN VarCharsWithSlash ELSE VarChars

RECURSIVE MatchAt(_, _, _, _)
\* the match of re[k..] against s[p + l'..] for the largest l' <= l that has
\* one (a greedy repetition gives back one character at a time), with l'
RECURSIVE LongestRun(_, _, _, _, _)
LongestRun(re, k, s, p, l) ==
    IF l < 0 THEN [ok |-> FALSE, caps |-> <<>>, len |-> 0]
    ELSE LET rest == MatchAt(re, k, s, p + l)
         IN  IF rest.ok
             THEN [ok |-> TRUE, caps |-> rest.caps, len |-> l]
             ELSE LongestRun(re, k, s, p, l - 1)

\* the match of re[k..] against s[p..]: the first one in the engine's order
MatchAt(re, k, s, p) ==
    IF k > Len(re) THEN [ok |-> TRUE, caps |-> <<>>]
    ELSE LET item == re[k] IN
      CASE item = REGEX_START ->
             IF p = 1 THEN MatchAt(re, k + 1, s, p) ELSE NoCaptures
        [] item = REGEX_END ->
             IF p = Len(s) + 1 THEN MatchAt(re, k + 1, s, p) ELSE NoCaptures
        [] item \in {VAR_SEQ, VAR_SEQ_WITH_SLASH, VAR_SEQ_WITH_CAPTURE} ->
             LET run == LongestRun(re, k + 1, s, p, RunLen(s, p, ItemClass(item)))
             IN  IF ~run.ok THEN NoCaptures
                 ELSE IF item = VAR_SEQ_WITH_CAPTURE
                      THEN [ok |-> TRUE,
                            caps |-> <<SubSeq(s, p, p + run.len - 1)>> \o run.caps]
                      ELSE [ok |-> TRUE, caps |-> run.caps]
        [] item = REGEX_PARAM_SEQ ->
             LET n == IF p <= Len(s) /\ s[p] = "?"
                      THEN RunLen(s, p + 1, ParamChars) ELSE -1
                 run == LongestRun(re, k + 1, s, p + 1, n)
             IN  IF run.ok
                 THEN [ok |-> TRUE, caps |-> <<SubSeq(s, p, p + run.len)>> \o run.caps]
                 ELSE LET rest == MatchAt(re, k + 1, s, p)
                      IN  IF rest.ok
                          THEN [ok |-> TRUE, caps |-> <<<<>>>> \o rest.caps]
                          ELSE NoCaptures
        [] OTHER ->
             IF p <= Len(s) /\ (item = "." \/ s[p] = item)
             THEN MatchAt(re, k + 1, s, p + 1)
             ELSE NoCaptures

\* Regex::captures: the match at the leftmost start position that has one
captures(re, s) ==
    LET starts == {p \in 1..(Len(s) + 1) : MatchAt(re, 1, s, p).ok}
    IN  IF starts = {} THEN NoCaptures
        ELSE MatchAt(re, 1, s, CHOOSE p \in starts : \A q \in starts : p <= q)

\* Regex::is_match
is_match(re, s) == \E p \in 1..(Len(s) + 1) : MatchAt(re, 1, s, p).ok

\* Captures::at(i): the text of group i, empty when the group took no part
CapturesAt(caps, i) == IF i \in 1..Len(caps) THEN caps[i] ELSE <<>>

(***************************************************************************)
(* Inputs of the model                                                     *)
(***************************************************************************)
Methods == {"Get", "Post"}

\* the route patterns the application registers
RoutePaths == { <<"/", "a">>, <<"/", ":", "u">> }

\* the request URIs: absolute paths, and one that is not an absolute path
RequestUris ==
    { [abs |-> TRUE,  url |-> <<"/", "a">>],
      [abs |-> TRUE,  url |-> <<"/", "b">>],
      [abs |-> FALSE, url |-> <<"*">>] }

(***************************************************************************)
(* Request, Response, NickelError                                          *)
(***************************************************************************)
\* Request::from_internal: no route result / parameters yet, an empty body
\* and an empty map of extensions
NewRequest(method, uri) ==
    [method |-> method, uri |-> uri, params |-> <<>>, body |-> <<>>, map |-> <<>>]

\* json::from_str on the texts of the model: a number, the empty object and
\* the empty array are JSON, every other text is an error (0 or 1 element)
from_str(body) ==
    IF body = <<"{", "}">> THEN <<[kind |-> "Object", text |-> body]>>
    ELSE IF body = <<"[", "]">> THEN <<[kind |-> "List", text |-> body]>>
    ELSE IF body # <<>> /\ \A k \in 1..Len(body) : body[k] \in Digit
    THEN <<[kind |-> "Number", text |-> body]>>
    ELSE <<>>

\* TypeMap::find::<Json>
find_json(map) == IF "Json" \in DOMAIN map THEN <<map["Json"]>> ELSE <<>>

\* TypeMap::insert::<Json>
insert_json(map, parsed) ==
    [k \in DOMAIN map \cup {"Json"} |-> IF k = "Json" THEN parsed ELSE map[k]]

\* Request::json_as::<T> for a T that decodes from an object: None when no
\* Json is in the map or when it does not decode
json_as(req) ==
    LET parsed == find_json(req.map)
    IN  IF parsed # <<>> /\ parsed[1].kind = "Object" THEN parsed ELSE <<>>

\* Response::from_internal: a Fresh response without headers; marks records
\* what was set or written on it, in order; headers maps the types of the
\* headers that are set to their values
NewResponse == [status |-> "Ok", headers |-> <<>>, marks |-> <<>>, started |-> FALSE]

\* Response::set / a write: the modification is recorded as a mark
Mark(res, m) == [res EXCEPT !.marks = Append(@, m)]

\* Headers::has::<H>
has(headers, h) == h \in DOMAIN headers

\* Headers::set: the header of this type is set, one that was there is replaced
headers_set(headers, h, v) ==
    [k \in DOMAIN headers \cup {h} |-> IF k = h THEN v ELSE headers[k]]

\* Headers::remove::<H>
headers_remove(headers, h) == [k \in DOMAIN headers \ {h} |-> headers[k]]

\* the fallback that sets the header whether or not one is there
set_header_fallback_always(res, h, f) ==
    [res |-> [res EXCEPT !.headers = headers_set(@, h, f)], called |-> <<h>>]

\* Response::set_header_fallback for a header of type h and a closure that
\* returns f: the response, and the closures that were called
set_header_fallback(res, h, f) ==
    IF ~has(res.headers, h)
    THEN [res |-> [res EXCEPT !.headers = headers_set(@, h, f)], called |-> <<h>>]
    ELSE [res |-> res, called |-> <<>>]

\* Response::set_fallback_headers
set_fallback_headers(res) ==
    LET date   == set_header_fallback(res, "Date", "now_utc")
        server == set_header_fallback(date.res, "Server", "Nickel")
        ctype  == set_header_fallback(server.res, "ContentType", "Html")
    IN  [res |-> ctype.res, called |-> date.called \o server.called \o ctype.called]

\* the start that sends the head without the fallback headers and leaves the
\* response Fresh
start_stays_fresh(res) == res

\* Response::start (HyperResponse::start returned Ok): the fallback headers
\* are set, Fresh -> Streaming
start(res) == [set_fallback_headers(res).res EXCEPT !.started = TRUE]

\* NickelError: kind, and the response it may carry (0 or 1 element)
NickelError(kind, status, stream) ==
    [kind |-> kind, status |-> status, stream |-> stream]

\* an entry of the log of end calls: who ended, and the response ended (0 or 1 element)
EndCall(by, res) == [by |-> by, res |-> res]

\* Response::end on the Streaming response of Halt
end(res) == << EndCall("halt", <<res>>) >>

\* NickelError::end: ends the response the error carries, if any
err_end(err) == << EndCall("error", err.stream) >>

\* Response::bail: the middleware ends the stream itself
bail_end(res) == << EndCall("bail", <<res>>) >>

(***************************************************************************)
(* Route and Router                                                        *)
(***************************************************************************)
\* the add_route that puts the new route in front of the others
add_route_to_front(routes, method, path, handler) ==
    <<[path      |-> path,
       method    |-> method,
       matcher   |-> create_regex(path),
       handler   |-> handler,
       variables |-> get_variable_info(path)]>> \o routes

\* the add_route that pushes the route whatever create_regex came to
add_route_to_unchecked(routes, method, path, handler) ==
    Append(routes, [path      |-> path,
                    method    |-> method,
                    matcher   |-> create_regex(path),
                    handler   |-> handler,
                    variables |-> get_variable_info(path)])

\* Router::add_route builds the Route and pushes it; when create_regex fails
\* the push is never reached
add_route_to(routes, method, path, handler) ==
    IF create_regex(path) = Unwinding
    THEN routes
    ELSE Append(routes, [path      |-> path,
                         method    |-> method,
                         matcher   |-> create_regex(path),
                         handler   |-> handler,
                         variables |-> get_variable_info(path)])

\* a scan that keeps the last route the closure accepts
RECURSIVE find_last(_, _, _, _)
find_last(routes, i, method, path) ==
    IF i > Len(routes) THEN 0
    ELSE LET later == find_last(routes, i + 1, method, path)
         IN  IF later # 0 THEN later
             ELSE IF routes[i].method = method /\ is_match(routes[i].matcher, path)
                  THEN i ELSE 0

\* self.routes.iter().find(|item| item.method == method && item.matcher.is_match(path)):
\* the index of the first route the closure accepts, 0 for None
RECURSIVE find(_, _, _, _)
find(routes, i, method, path) ==
    IF i > Len(routes) THEN 0
    ELSE IF routes[i].method = method /\ is_match(routes[i].matcher, path)
         THEN i
         ELSE find(routes, i + 1, method, path)

NoRouteResult == [found |-> FALSE, route |-> 0, params |-> <<>>]

\* the match_route that returns every group of the match under its number
match_route_every_group(routes, method, path) ==
    LET i == find(routes, 1, method, path)
    IN  IF i = 0 THEN NoRouteResult
        ELSE LET caps == captures(routes[i].matcher, path)
             IN  [found  |-> TRUE,
                  route  |-> i,
                  params |-> [g \in 1..Len(caps.caps) |-> caps.caps[g]]]

\* Router::match_route
match_route(routes, method, path) ==
    LET i == find(routes, 1, method, path)
    IN  IF i = 0 THEN NoRouteResult
        ELSE LET route == routes[i]
                 caps  == captures(route.matcher, path)
             IN  IF caps.ok
                 THEN [found  |-> TRUE,
                       route  |-> i,
                       params |-> [name \in DOMAIN route.variables |->
                                     CapturesAt(caps.caps, route.variables[name] + 1)]]
                 ELSE [found |-> TRUE, route |-> i, params |-> <<>>]

(***************************************************************************)
(* Middlewares.  The result of one invocation is a record                  *)
(*   tag    "Continue" | "Halt" | "Err"                                    *)
(*   res    the response inside Continue / Halt (0 or 1 element)           *)
(*   err    the NickelError inside Err (0 or 1 element)                    *)
(*   req    the request as the middleware leaves it                        *)
(*   hcalls the route handlers it invoked, with what each observed         *)
(*   ended  the responses it ended itself (bail)                           *)
(***************************************************************************)
MwResult(tag, res, err, req, hcalls, ended) ==
    [tag |-> tag, res |-> res, err |-> err, req |-> req,
     hcalls |-> hcalls, ended |-> ended]

\* a route handler: writes its answer on the response
handle(handler, req, res) == Mark(res, handler)

\* the router that calls the handler before it sets the status and the parameters
RouterInvoke_handler_first(routes, req, res) ==
    IF req.uri.abs
    THEN LET route_result == match_route(routes, req.method, req.uri.url)
         IN  IF route_result.found
             THEN LET h    == routes[route_result.route].handler
                      res1 == [handle(h, req, res) EXCEPT !.status = "Ok"]
                      req1 == [req EXCEPT !.params = route_result.params]
                  IN  MwResult("Halt", <<start(res1)>>, <<>>, req1,
                               << [handler |-> h,
                                   route   |-> route_result.route,
                                   status  |-> res.status,
                                   params  |-> req.params,
                                   json    |-> json_as(req)] >>,
                               <<>>)
             ELSE MwResult("Continue", <<res>>, <<>>, req, <<>>, <<>>)
    ELSE MwResult("Continue", <<res>>, <<>>, req, <<>>, <<>>)

\* the router that sets the status before it knows whether a route matches
RouterInvoke_status_first(routes, req, res) ==
    LET res1 == [res EXCEPT !.status = "Ok"]
    IN  IF req.uri.abs
        THEN LET route_result == match_route(routes, req.method, req.uri.url)
             IN  IF route_result.found
                 THEN LET req1 == [req EXCEPT !.params = route_result.params]
                          h    == routes[route_result.route].handler
                      IN  MwResult("Halt", <<start(handle(h, req1, res1))>>, <<>>, req1,
                                   << [handler |-> h,
                                       route   |-> route_result.route,
                                       status  |-> res1.status,
                                       params  |-> req1.params,
                                       json    |-> json_as(req1)] >>,
                                   <<>>)
                 ELSE MwResult("Continue", <<res1>>, <<>>, req, <<>>, <<>>)
        ELSE MwResult("Continue", <<res1>>, <<>>, req, <<>>, <<>>)

\* impl Middleware for Router
RouterInvoke(routes, req, res) ==
    IF req.uri.abs
    THEN LET route_result == match_route(routes, req.method, req.uri.url)
         IN  IF route_result.found
             THEN LET res1 == [res EXCEPT !.status = "Ok"]
                      req1 == [req EXCEPT !.params = route_result.params]
                      h    == routes[route_result.route].handler
                  IN  MwResult("Halt", <<start(handle(h, req1, res1))>>, <<>>, req1,
                               << [handler |-> h,
                                   route   |-> route_result.route,
                                   status  |-> res1.status,
                                   params  |-> req1.params,
                                   json    |-> json_as(req1)] >>,
                               <<>>)
             ELSE MwResult("Continue", <<res>>, <<>>, req, <<>>, <<>>)
    ELSE MwResult("Continue", <<res>>, <<>>, req, <<>>, <<>>)

\* fn not_found_handler of Nickel::listen
not_found_handler(req, res) ==
    MwResult("Err", <<>>,
             <<NickelError("ErrorWithStatusCode", "NotFound",
                           <<start([res EXCEPT !.status = "NotFound"])>>)>>,
             req, <<>>, <<>>)

\* the parser that answers a body that is no JSON with an error
JsonInvoke_rejecting(req, res) ==
    IF req.body # <<>> /\ from_str(req.body) = <<>>
    THEN MwResult("Err", <<>>,
                  <<NickelError("ErrorWithStatusCode", "BadRequest",
                                <<start([res EXCEPT !.status = "BadRequest"])>>)>>,
                  req, <<>>, <<>>)
    ELSE IF req.body # <<>>
    THEN MwResult("Continue", <<res>>, <<>>,
                  [req EXCEPT !.map = insert_json(@, from_str(req.body)[1])],
                  <<>>, <<>>)
    ELSE MwResult("Continue", <<res>>, <<>>, req, <<>>, <<>>)

\* impl Middleware for JsonBodyParser
JsonInvoke(req, res) ==
    IF req.body # <<>>
    THEN IF from_str(req.body) # <<>>
         THEN MwResult("Continue", <<res>>, <<>>,
                       [req EXCEPT !.map = insert_json(@, from_str(req.body)[1])],
                       <<>>, <<>>)
         ELSE MwResult("Continue", <<res>>, <<>>, req, <<>>, <<>>)
    ELSE MwResult("Continue", <<res>>, <<>>, req, <<>>, <<>>)

\* An application middleware with a fixed behaviour:
\*   Continue  sets something on the response and passes it on
\*   Halt      sends the response
\*   Error     Response::error(status, message)
\*   Bail      starts the response, then Response::bail(message)
UserInvoke(act, req, res) ==
    CASE act = "Continue" ->
           MwResult("Continue", <<Mark([res EXCEPT !.status = "Accepted"], "set")>>,
                    <<>>, req, <<>>, <<>>)
      [] act = "Halt" ->
           MwResult("Halt", <<start(Mark(res, "send"))>>, <<>>, req, <<>>, <<>>)
      [] act = "Error" ->
           MwResult("Err", <<>>,
                    <<NickelError("ErrorWithStatusCode", "BadRequest",
                                  <<start([res EXCEPT !.status = "BadRequest"])>>)>>,
                    req, <<>>, <<>>)
      [] act = "Bail" ->
           MwResult("Err", <<>>, <<NickelError("Other", "None", <<>>)>>,
                    req, <<>>, bail_end(start(res)))

UserActs == {"Continue", "Halt", "Error", "Bail"}

\* Middleware::invoke, dispatched on the middleware's type
MiddlewareInvoke(mw, req, res) ==
    CASE mw.kind = "router"    -> RouterInvoke(mw.routes, req, res)
      [] mw.kind = "not_found" -> not_found_handler(req, res)
      [] mw.kind = "user"      -> UserInvoke(mw.act, req, res)
      [] mw.kind = "json"      -> JsonInvoke(req, res)

UserMiddleware(act) == [kind |-> "user", act |-> act, routes |-> <<>>]

RouterMiddleware(routes) == [kind |-> "router", act |-> "", routes |-> routes]

NotFoundMiddleware == [kind |-> "not_found", act |-> "", routes |-> <<>>]

JsonBodyParser == [kind |-> "json", act |-> "", routes |-> <<>>]

(***************************************************************************)
(* Error handlers.  The result: the Action, and the error as the handler   *)
(* leaves it.                                                              *)
(***************************************************************************)
WriteToStream(err, m) ==
    IF err.stream = <<>> THEN err
    ELSE [err EXCEPT !.stream = <<Mark(err.stream[1], m)>>]

\* DefaultErrorHandler: a status-coded error gets a status-only body
DefaultErrorHandler(err, req) ==
    IF err.kind = "ErrorWithStatusCode"
    THEN [action |-> "Halt", err |-> WriteToStream(err, err.status)]
    ELSE [action |-> "Continue", err |-> err]

\* an application error handler with a fixed behaviour
UserErrorHandler(act, err, req) ==
    IF act = "Halt"
    THEN [action |-> "Halt", err |-> WriteToStream(err, "recovered")]
    ELSE [action |-> "Continue", err |-> err]

\* ErrorHandler::handle_error
handle_error_of(eh, err, req) ==
    IF eh.kind = "default" THEN DefaultErrorHandler(err, req)
    ELSE UserErrorHandler(eh.act, err, req)

\* iter() where the code has iter().rev()
rev_forgotten(n) == [k \in 1..n |-> k]

\* self.error_handlers.iter().rev(): the indices of n handlers in the order of the traversal
rev(n) == [k \in 1..n |-> n - k + 1]

(***************************************************************************)
(* Response::render and the TemplateCache                                  *)
(***************************************************************************)
\* the concurrent requests whose handler calls Response::render
Renderers == 1..MaxRenderers

\* the template paths the handlers render
TemplatePaths == {"t1", "t2"}

\* RwLock::new: no reader, no writer (writer 0)
Unlocked == [readers |-> {}, writer |-> 0]

\* a renderer before its call of render:
\*   pc        "idle" | "fast" | "miss" | "locked" | "slow" | "done"
\*   path      the template path of the call
\*   read      what the lookup under the read lock returned (0 or 1 element)
\*   entry     what templates.entry(path) held under the write lock (0 or 1 element)
\*   compiled  the outcome of this call's compile_path, TRUE for Ok (0 or 1 element)
\*   template  the template handed to the inner render (0 or 1 element)
\*   result    the MiddlewareResult of the call (0 or 1 element)
NotRendering ==
    [pc |-> "idle", path |-> "", read |-> <<>>, entry |-> <<>>,
     compiled |-> <<>>, template |-> <<>>, result |-> <<>>]

\* mustache::compile_path returned Ok: a complete template, compiled by this call
Template(path, by) == [path |-> path, by |-> by, complete |-> TRUE]

\* HashMap::get
get(map, path) == IF path \in DOMAIN map THEN <<map[path]>> ELSE <<>>

\* HashMap: the value under the key is set
insert(map, path, t) ==
    [k \in DOMAIN map \cup {path} |-> IF k = path THEN t ELSE map[k]]

\* the slow path that compiles and stores without looking at the entry
entry_or_compile_no_recheck(map, path, by, ok) ==
    IF ok
    THEN [map |-> insert(map, path, Template(path, by)),
          template |-> <<Template(path, by)>>, compiled |-> <<TRUE>>]
    ELSE [map |-> map, template |-> <<>>, compiled |-> <<FALSE>>]

\* the slow path that compiles and does not store the template
entry_or_compile_not_stored(map, path, by, ok) ==
    IF path \in DOMAIN map
    THEN [map |-> map, template |-> <<map[path]>>, compiled |-> <<>>]
    ELSE IF ok
         THEN [map |-> map, template |-> <<Template(path, by)>>, compiled |-> <<TRUE>>]
         ELSE [map |-> map, template |-> <<>>, compiled |-> <<FALSE>>]

\* the slow path that stores an entry for the path also when compile_path
\* failed
entry_or_compile_stores_failure(map, path, by, ok) ==
    IF path \in DOMAIN map
    THEN [map |-> map, template |-> <<map[path]>>, compiled |-> <<>>]
    ELSE IF ok
         THEN [map |-> insert(map, path, Template(path, by)),
               template |-> <<Template(path, by)>>, compiled |-> <<TRUE>>]
         ELSE [map |-> insert(map, path, Template(path, by)),
               template |-> <<>>, compiled |-> <<FALSE>>]

\* match templates.entry(path): Occupied gives the entry; Vacant compiles the
\* path (ok: compile_path returned Ok) and inserts the template, or leaves
\* the map as it is when compile_path fails
entry_or_compile(map, path, by, ok) ==
    IF path \in DOMAIN map
    THEN [map |-> map, template |-> <<map[path]>>, compiled |-> <<>>]
    ELSE IF ok
         THEN [map |-> insert(map, path, Template(path, by)),
               template |-> <<Template(path, by)>>, compiled |-> <<TRUE>>]
         ELSE [map |-> map, template |-> <<>>, compiled |-> <<FALSE>>]

\* a MiddlewareResult of a method of Response: tag "Halt" | "Err", the
\* response inside Halt, the error inside Err, the responses the method ended
MethodResult(tag, res, err, ended) ==
    [tag |-> tag, res |-> res, err |-> err, ended |-> ended]

\* NickelError::without_response
without_response == NickelError("Other", "None", <<>>)

\* try_with!(res, ..) on an Err: the method returns an error that carries the response
try_with(res) ==
    NickelError("ErrorWithStatusCode", "InternalServerError",
                <<start([res EXCEPT !.status = "InternalServerError"])>>)

\* the outcomes of the input/output of a method that streams: all went well,
\* HyperResponse::start failed, the write into the stream failed
StreamOutcomes == {"ok", "start_fails", "write_fails"}

\* the bail that hands the stream over to the error handlers, with the
\* status of a server error put on it
bail_with_response(res) ==
    MethodResult("Err", <<>>,
                 <<NickelError("Other", "None",
                               <<[res EXCEPT !.status = "InternalServerError"]>>)>>,
                 <<>>)

\* Response::bail on a Streaming response: the stream is ended, the error
\* has no response
bail(res) == MethodResult("Err", <<>>, <<without_response>>, bail_end(res))

\* fn render inside Response::render: start, then Template::render into the stream
render_template(res, template, io) ==
    CASE io = "start_fails" ->
           MethodResult("Err", <<>>, <<without_response>>, <<>>)
      [] io = "ok" ->
           MethodResult("Halt", <<Mark(start(res), template.path)>>, <<>>, <<>>)
      [] io = "write_fails" ->
           bail(start(res))

\* Response::error
error(res, status) ==
    MethodResult("Err", <<>>,
                 <<NickelError("ErrorWithStatusCode", status,
                               <<start([res EXCEPT !.status = status])>>)>>,
                 <<>>)

\* the files a handler sends: with a known extension, an unknown one, none
FilePaths ==
    { [stem |-> "test", extension |-> <<"txt">>],
      [stem |-> "test", extension |-> <<"zz">>],
      [stem |-> "test", extension |-> <<>>] }

\* the parse of an extension into a MediaType (the extensions of the test
\* matches_content_type)
ParseMediaType(ext) ==
    CASE ext = "txt"  -> <<"Txt">>
      [] ext = "html" -> <<"Html">>
      [] ext = "json" -> <<"Json">>
      [] ext = "bin"  -> <<"Bin">>
      [] OTHER        -> <<>>

\* fn mime_from_filename: Some(MediaType) as a sequence of one element, None as <<>>
mime_from_filename(path) ==
    IF path.extension = <<>> THEN <<>> ELSE ParseMediaType(path.extension[1])

\* Response::send_file; opened: File::open returned Ok, io: the outcome of
\* start and of the copy into the stream
send_file(res, path, opened, io) ==
    LET chunked == [res EXCEPT !.headers = headers_remove(@, "ContentLength")]
        found   == mime_from_filename(path)
        mime    == IF found = <<>> THEN "Bin" ELSE found[1]
        typed   == [chunked EXCEPT !.headers = headers_set(@, "ContentType", mime)]
    IN  IF ~opened
        THEN MethodResult("Err", <<>>, <<try_with(typed)>>, <<>>)
        ELSE CASE io = "start_fails" ->
                    MethodResult("Err", <<>>, <<without_response>>, <<>>)
               [] io = "ok" ->
                    MethodResult("Halt", <<Mark(start(typed), path.stem)>>, <<>>, <<>>)
               [] io = "write_fails" ->
                    bail(start(typed))

(***************************************************************************)
(* StaticFilesHandler.  A request path is a sequence of the '/' and the    *)
(* parts of a file name; fs::metadata of the joined path is an input:      *)
(* "file" | "directory" | "not_found" | "error"                            *)
(***************************************************************************)
\* Request::path_without_query as the handler uses it: None for a URI that
\* is not an absolute path
path_without_query(req) == IF req.uri.abs THEN <<req.uri.url>> ELSE <<>>

\* StaticFilesHandler::extract_path: "/" is index.html, else &path[1..]
extract_path(req) ==
    LET path == path_without_query(req)
    IN  IF path = <<>> THEN <<>>
        ELSE IF path[1] = <<"/">> THEN << <<"index", ".", "html">> >>
        ELSE << Tail(path[1]) >>

\* self.root_path.join(path): the file name and the extension of the joined path
join(relative_path) ==
    IF Len(relative_path) = 3 /\ relative_path[2] = "."
    THEN [stem |-> relative_path[1], extension |-> <<relative_path[3]>>]
    ELSE [stem |-> relative_path[1], extension |-> <<>>]

\* the outcomes of fs::metadata
Metadata == {"file", "directory", "not_found", "error"}

\* the with_file that reports a file that is not there as an error
with_file_not_found_error(relative_path, res, attr, opened, io) ==
    IF relative_path # <<>> /\ attr = "file"
    THEN send_file(res, join(relative_path[1]), opened, io)
    ELSE IF relative_path # <<>> /\ attr = "not_found"
    THEN error(res, "NotFound")
    ELSE MethodResult("Continue", <<res>>, <<>>, <<>>)

\* StaticFilesHandler::with_file; attr: what fs::metadata returned
with_file(relative_path, res, attr, opened, io) ==
    IF relative_path # <<>> /\ attr = "file"
    THEN send_file(res, join(relative_path[1]), opened, io)
    ELSE MethodResult("Continue", <<res>>, <<>>, <<>>)

\* impl Middleware for StaticFilesHandler
StaticInvoke(req, res, attr, opened, io) ==
    LET r == IF req.method \in {"Get", "Head"}
             THEN with_file(extract_path(req), res, attr, opened, io)
             ELSE MethodResult("Continue", <<res>>, <<>>, <<>>)
    IN  MwResult(r.tag, r.res, r.err, req, <<>>, r.ended)

StaticMiddleware == [kind |-> "static", act |-> "", routes |-> <<>>]

(***************************************************************************)
(* MiddlewareStack::invoke as a function of the stack and of the locals of *)
(* one call (req, res, the positions of the two loops, the error), for the *)
(* calls that run at the same time on one stack                            *)
(***************************************************************************)
\* the two requests the server dispatches at the same time
Dispatchers == {"first", "second"}

\* the locals of a call of invoke when it is entered, and what it did so far
NewDispatch(method, uri) ==
    [pc |-> "handlers", req |-> <<NewRequest(method, uri)>>, res |-> <<NewResponse>>,
     i |-> 1, err |-> <<>>, j |-> 0, calls |-> <<>>, ecalls |-> <<>>,
     hcalls |-> <<>>, ended |-> <<>>, unhandled |-> 0]

\* the pass that ends the response on Halt and goes on to the next handler
StepHandler_no_return(d, mw, r) ==
    LET pass == [d EXCEPT !.calls = Append(@, [idx |-> d.i, mw |-> mw,
                                               req |-> d.req[1], res |-> d.res[1],
                                               result |-> r]),
                          !.req = <<r.req>>,
                          !.hcalls = @ \o r.hcalls]
    IN  CASE r.tag = "Halt" ->
               [pass EXCEPT !.ended = @ \o r.ended \o end(r.res[1]),
                            !.res = r.res,
                            !.i = @ + 1]
          [] r.tag = "Continue" ->
               [pass EXCEPT !.res = r.res,
                            !.i = @ + 1,
                            !.ended = @ \o r.ended]
          [] r.tag = "Err" ->
               [pass EXCEPT !.err = r.err,
                            !.res = <<>>,
                            !.j = 1,
                            !.pc = "error_handlers",
                            !.ended = @ \o r.ended]

\* the pass of the loop over the handlers that invoked mw with result r
StepHandler(d, mw, r) ==
    LET pass == [d EXCEPT !.calls = Append(@, [idx |-> d.i, mw |-> mw,
                                               req |-> d.req[1], res |-> d.res[1],
                                               result |-> r]),
                          !.req = <<r.req>>,
                          !.hcalls = @ \o r.hcalls]
    IN  CASE r.tag = "Halt" ->
               [pass EXCEPT !.ended = @ \o r.ended \o end(r.res[1]),
                            !.res = <<>>,
                            !.pc = "returned"]
          [] r.tag = "Continue" ->
               [pass EXCEPT !.res = r.res,
                            !.i = @ + 1,
                            !.ended = @ \o r.ended]
          [] r.tag = "Err" ->
               [pass EXCEPT !.err = r.err,
                            !.res = <<>>,
                            !.j = 1,
                            !.pc = "error_handlers",
                            !.ended = @ \o r.ended]

\* the pass of the loop over the error handlers that consulted eh, the k-th
\* registered, with outcome o
StepErrorHandler(d, k, eh, o) ==
    LET pass == [d EXCEPT !.ecalls = Append(@, [idx |-> k, eh |-> eh,
                                                err |-> d.err[1],
                                                action |-> o.action]),
                          !.err = <<o.err>>]
    IN  IF o.action = "Halt"
        THEN [pass EXCEPT !.ended = @ \o err_end(o.err), !.pc = "returned"]
        ELSE [pass EXCEPT !.j = @ + 1]

\* one pass of a loop of invoke on the handlers hs and the error handlers ehs
invoke_step(hs, ehs, d) ==
    IF d.pc = "handlers"
    THEN IF d.i > Len(hs)
         THEN [d EXCEPT !.pc = "returned"]
         ELSE StepHandler(d, hs[d.i],
                          MiddlewareInvoke(hs[d.i], d.req[1], d.res[1]))
    ELSE IF d.pc = "error_handlers"
    THEN IF d.j > Len(ehs)
         THEN [d EXCEPT !.unhandled = @ + 1, !.pc = "returned"]
         ELSE StepErrorHandler(d, rev(Len(ehs))[d.j], ehs[rev(Len(ehs))[d.j]],
                               handle_error_of(ehs[rev(Len(ehs))[d.j]],
                                               d.err[1], d.req[1]))
    ELSE d

(***************************************************************************)
(* State                                                                   *)
(***************************************************************************)
VARIABLES
    handlers,        \* MiddlewareStack.handlers
    error_handlers,  \* MiddlewareStack.error_handlers
    router,          \* the routes of the Router the application is building
    listening,       \* Nickel::listen was called
    pc,              \* "idle" | "handlers" | "error_handlers" | "returned"
    req,             \* the request of the dispatch (0 or 1 element)
    res,             \* the response in progress (0 or 1 element)
    i,               \* position of invoke's loop over handlers
    err,             \* the error being handled (0 or 1 element)
    j,               \* position of invoke's loop over error_handlers.iter().rev()
    calls,           \* the middlewares invoked for this request, with arguments and result
    ecalls,          \* the error handlers consulted for this request, with result
    hcalls,          \* the route handlers invoked for this request
    ended,           \* the end calls made for this request
    unhandled,       \* the errors logged as unhandled for this request
    utilized,        \* history: the middlewares in the order they were registered
    handled,         \* history: the error handlers in the order they were registered
    matched,         \* the last call of match_route: table, arguments, result (0 or 1 element)
    templates,       \* TemplateCache: the HashMap inside the RwLock, path -> Template
    rwlock,          \* the RwLock of the TemplateCache: who holds it for reading / writing
    renders,         \* the calls of Response::render, one per renderer: position and what it saw
    dispatches,      \* the concurrent calls of MiddlewareStack::invoke on the one stack, each with its locals (0 or 1 element)
    failed,          \* the task that builds the application ended in fail!
    called           \* the last call of a method of Response: method, response before, result, response after (0 or 1 element)

vars == <<handlers, error_handlers, router, listening, pc, req, res, i, err, j,
          calls, ecalls, hcalls, ended, unhandled, utilized, handled, matched,
          templates, rwlock, renders, dispatches, failed, called>>

stack == <<handlers, error_handlers, utilized, handled>>

dispatch == <<pc, req, res, i, err, j, calls, ecalls, hcalls, ended, unhandled>>

nickel == <<handlers, error_handlers, utilized, handled, listening>>

\* the template cache and the render calls that work on it
cache == <<templates, rwlock, renders>>

\* the routes registered so far, in routers of the stack and in the one being built
RECURSIVE StackRoutes(_, _)
StackRoutes(hs, k) ==
    IF k > Len(hs) THEN 0 ELSE Len(hs[k].routes) + StackRoutes(hs, k + 1)

TotalRoutes == Len(router) + StackRoutes(handlers, 1)

\* the calls of add_route, utilize and handle_error made so far
Registrations == TotalRoutes + Len(handlers) + (Len(error_handlers) - 1)

(***************************************************************************)
(* MiddlewareStack                                                         *)
(***************************************************************************)
\* insert(0, ..) where the code has push
add_middleware_front(hs, handler) == <<handler>> \o hs

\* MiddlewareStack::add_middleware
add_middleware(hs, handler) == Append(hs, handler)

\* insert(0, ..) where the code has push
add_error_handler_front(ehs, handler) == <<handler>> \o ehs

\* MiddlewareStack::add_error_handler
add_error_handler(ehs, handler) == Append(ehs, handler)

(***************************************************************************)
(* Nickel::new and MiddlewareStack::new                                    *)
(***************************************************************************)
DefaultHandler == [kind |-> "default", act |-> ""]

UserHandler(act) == [kind |-> "user", act |-> act]

Init ==
    /\ handlers = <<>>
    /\ error_handlers = add_error_handler(<<>>, DefaultHandler)
    /\ utilized = <<>>
    /\ handled = <<DefaultHandler>>
    /\ router = <<>>
    /\ listening = FALSE
    /\ pc = "idle"
    /\ req = <<>>
    /\ res = <<>>
    /\ i = 0
    /\ err = <<>>
    /\ j = 0
    /\ calls = <<>>
    /\ ecalls = <<>>
    /\ hcalls = <<>>
    /\ ended = <<>>
    /\ unhandled = 0
    /\ matched = <<>>
    /\ templates = <<>>
    /\ rwlock = Unlocked
    /\ renders = [p \in Renderers |-> NotRendering]
    /\ called = <<>>
    /\ dispatches = [d \in Dispatchers |-> <<>>]
    /\ failed = FALSE

\* the stack is built before the first request is dispatched
Configuring == pc = "idle" /\ ~listening /\ ~failed

(***************************************************************************)
(* Registration                                                            *)
(***************************************************************************)
\* Router::add_route on the router under construction; the handler is a new one
add_route(method, path) ==
    /\ Configuring
    /\ Registrations < MaxRegistrations
    /\ router' = add_route_to(router, method, path, TotalRoutes + 1)
    /\ failed' = (create_regex(path) = Unwinding)
    /\ UNCHANGED <<cache, called, dispatches, matched, stack, listening, dispatch>>

\* Nickel::utilize with an application middleware
utilize(act) ==
    /\ Configuring
    /\ Registrations < MaxRegistrations
    /\ handlers' = add_middleware(handlers, UserMiddleware(act))
    /\ utilized' = Append(utilized, UserMiddleware(act))
    /\ UNCHANGED <<failed, cache, called, dispatches, matched, error_handlers, handled, router, listening, dispatch>>

\* Nickel::utilize with the router built so far; the application goes on with a new one
utilize_router ==
    /\ Configuring
    /\ Registrations < MaxRegistrations
    /\ router # <<>>
    /\ handlers' = add_middleware(handlers, RouterMiddleware(router))
    /\ utilized' = Append(utilized, RouterMiddleware(router))
    /\ router' = <<>>
    /\ UNCHANGED <<failed, cache, called, dispatches, matched, error_handlers, handled, listening, dispatch>>

\* Nickel::add_route: a new Router with the one route is utilized; when
\* create_regex fails nothing is utilized
nickel_add_route(method, path) ==
    /\ Configuring
    /\ Len(handlers) < MaxChain
    /\ LET r == add_route_to(<<>>, method, path, TotalRoutes + 1)
       IN  /\ failed' = (r = <<>>)
           /\ handlers' = IF r = <<>> THEN handlers
                          ELSE add_middleware(handlers, RouterMiddleware(r))
           /\ utilized' = IF r = <<>> THEN utilized
                          ELSE Append(utilized, RouterMiddleware(r))
    /\ UNCHANGED <<cache, called, dispatches, matched, error_handlers, handled, router, listening, dispatch>>

\* Nickel::utilize(Nickel::json_body_parser())
utilize_json_body_parser ==
    /\ Configuring
    /\ Registrations < MaxRegistrations
    /\ handlers' = add_middleware(handlers, JsonBodyParser)
    /\ utilized' = Append(utilized, JsonBodyParser)
    /\ UNCHANGED <<failed, cache, called, dispatches, matched, error_handlers, handled, router, listening, dispatch>>

\* Nickel::handle_error
handle_error(act) ==
    /\ Configuring
    /\ Registrations < MaxRegistrations
    /\ error_handlers' = add_error_handler(error_handlers, UserHandler(act))
    /\ handled' = Append(handled, UserHandler(act))
    /\ UNCHANGED <<failed, cache, called, dispatches, matched, handlers, utilized, router, listening, dispatch>>

\* listen without the not-found middleware
listen_without_not_found ==
    /\ Configuring
    /\ listening' = TRUE
    /\ UNCHANGED <<failed, cache, called, dispatches, matched, handlers, error_handlers, utilized, handled, router, dispatch>>

\* listen that puts the not-found middleware first
listen_not_found_first ==
    /\ Configuring
    /\ handlers' = <<NotFoundMiddleware>> \o handlers
    /\ listening' = TRUE
    /\ UNCHANGED <<failed, cache, called, dispatches, matched, error_handlers, utilized, handled, router, dispatch>>

\* Nickel::listen: the not-found middleware goes last, then the server serves
listen ==
    /\ Configuring
    /\ handlers' = add_middleware(handlers, NotFoundMiddleware)
    /\ listening' = TRUE
    /\ UNCHANGED <<failed, cache, called, dispatches, matched, error_handlers, utilized, handled, router, dispatch>>

(***************************************************************************)
(* MiddlewareStack::invoke, one step per handler call                      *)
(***************************************************************************)
\* a request arrives: invoke is entered
invoke(method, uri) ==
    /\ pc \in {"idle", "returned"}
    /\ pc' = "handlers"
    /\ req' = <<NewRequest(method, uri)>>
    /\ res' = <<NewResponse>>
    /\ i' = 1
    /\ err' = <<>>
    /\ j' = 0
    /\ calls' = <<>>
    /\ ecalls' = <<>>
    /\ hcalls' = <<>>
    /\ ended' = <<>>
    /\ unhandled' = 0
    /\ UNCHANGED <<failed, cache, called, dispatches, matched, stack, router, listening>>

\* the pass without the return after Halt: the loop goes on with the next handler
HandlerPass_no_return(mw, r) ==
    /\ calls' = Append(calls, [idx |-> i, mw |-> mw, req |-> req[1], res |-> res[1],
                               result |-> r])
    /\ req' = <<r.req>>
    /\ hcalls' = hcalls \o r.hcalls
    /\ CASE r.tag = "Halt" ->
              /\ ended' = ended \o r.ended \o end(r.res[1])
              /\ res' = r.res
              /\ i' = i + 1
              /\ UNCHANGED <<pc, err, j>>
         [] r.tag = "Continue" ->
              /\ res' = r.res
              /\ i' = i + 1
              /\ ended' = ended \o r.ended
              /\ UNCHANGED <<pc, err, j>>
         [] r.tag = "Err" ->
              /\ err' = r.err
              /\ res' = <<>>
              /\ j' = 1
              /\ pc' = "error_handlers"
              /\ ended' = ended \o r.ended
              /\ UNCHANGED i

\* what one pass of the loop over handlers does with the result r of handler mw
HandlerPass(mw, r) ==
    /\ calls' = Append(calls, [idx |-> i, mw |-> mw, req |-> req[1], res |-> res[1],
                               result |-> r])
    /\ req' = <<r.req>>
    /\ hcalls' = hcalls \o r.hcalls
    /\ CASE r.tag = "Halt" ->
              /\ ended' = ended \o r.ended \o end(r.res[1])
              /\ res' = <<>>
              /\ pc' = "returned"
              /\ UNCHANGED <<i, err, j>>
         [] r.tag = "Continue" ->
              /\ res' = r.res
              /\ i' = i + 1
              /\ ended' = ended \o r.ended
              /\ UNCHANGED <<pc, err, j>>
         [] r.tag = "Err" ->
              /\ err' = r.err
              /\ res' = <<>>
              /\ j' = 1
              /\ pc' = "error_handlers"
              /\ ended' = ended \o r.ended
              /\ UNCHANGED i

\* for handler in self.handlers.iter(): the next handler is invoked
invoke_handler ==
    /\ pc = "handlers"
    /\ i <= Len(handlers)
    /\ HandlerPass(handlers[i], MiddlewareInvoke(handlers[i], req[1], res[1]))
    /\ UNCHANGED <<failed, cache, called, dispatches, matched, stack, router, listening, ecalls, unhandled>>

\* the loop over handlers is exhausted: invoke returns
invoke_exhausted ==
    /\ pc = "handlers"
    /\ i > Len(handlers)
    /\ pc' = "returned"
    /\ UNCHANGED <<failed, cache, called, dispatches, matched, stack, router, listening, req, res, i, err, j,
                   calls, ecalls, hcalls, ended, unhandled>>

\* the pass that gives up after the first handler that continues
ErrorHandlerPass_break(k, eh, o) ==
    /\ ecalls' = Append(ecalls, [idx |-> k, eh |-> eh, err |-> err[1], action |-> o.action])
    /\ err' = <<o.err>>
    /\ IF o.action = "Halt"
       THEN /\ ended' = ended \o err_end(o.err)
            /\ pc' = "returned"
            /\ UNCHANGED j
       ELSE /\ j' = Len(error_handlers) + 1
            /\ UNCHANGED <<ended, pc>>

\* what one pass of the loop over error handlers does with the outcome o of handler eh
ErrorHandlerPass(k, eh, o) ==
    /\ ecalls' = Append(ecalls, [idx |-> k, eh |-> eh, err |-> err[1], action |-> o.action])
    /\ err' = <<o.err>>
    /\ IF o.action = "Halt"
       THEN /\ ended' = ended \o err_end(o.err)
            /\ pc' = "returned"
            /\ UNCHANGED j
       ELSE /\ j' = j + 1
            /\ UNCHANGED <<ended, pc>>

\* for error_handler in self.error_handlers.iter().rev(): the next one is consulted
invoke_error_handler ==
    /\ pc = "error_handlers"
    /\ j <= Len(error_handlers)
    /\ LET k == rev(Len(error_handlers))[j]
       IN  ErrorHandlerPass(k, error_handlers[k],
                            handle_error_of(error_handlers[k], err[1], req[1]))
    /\ UNCHANGED <<failed, cache, called, dispatches, matched, stack, router, listening, req, res, i, calls, hcalls, unhandled>>

\* the unhandled error logged, and the failing middleware tried again
invoke_unhandled_retry ==
    /\ pc = "error_handlers"
    /\ j > Len(error_handlers)
    /\ unhandled' = unhandled + 1
    /\ pc' = "handlers"
    /\ res' = <<Last(calls).res>>
    /\ UNCHANGED <<failed, cache, called, dispatches, matched, stack, router, listening, req, i, err, j,
                   calls, ecalls, hcalls, ended>>

\* no error handler halted: warn!("Unhandled error: ...") and return
invoke_unhandled ==
    /\ pc = "error_handlers"
    /\ j > Len(error_handlers)
    /\ unhandled' = unhandled + 1
    /\ pc' = "returned"
    /\ UNCHANGED <<failed, cache, called, dispatches, matched, stack, router, listening, req, res, i, err, j,
                   calls, ecalls, hcalls, ended>>

Next ==
    \/ \E m \in Methods, p \in RoutePaths : add_route(m, p)
    \/ \E a \in UserActs : utilize(a)
    \/ utilize_router
    \/ \E a \in {"Continue", "Halt"} : handle_error(a)
    \/ listen
    \/ \E m \in Methods, u \in RequestUris : invoke(m, u)
    \/ invoke_handler
    \/ invoke_exhausted
    \/ invoke_error_handler
    \/ invoke_unhandled

Spec == Init /\ [][Next]_vars

\* the steps of a call of invoke after it was entered
invoke_next ==
    \/ invoke_handler
    \/ invoke_exhausted
    \/ invoke_error_handler
    \/ invoke_unhandled

\* every call of a handler and of an error handler returns, and the thread
\* that serves the request is scheduled: a call of invoke that can take its
\* next step takes it
InvokeNext ==
    \/ \E a \in UserActs : utilize(a)
    \/ \E a \in {"Continue", "Halt"} : handle_error(a)
    \/ listen
    \/ \E m \in Methods, u \in RequestUris : invoke(m, u)
    \/ invoke_next

InvokeFairSpec == Init /\ [][InvokeNext]_vars /\ WF_vars(invoke_next)

(***************************************************************************)
(* Server::handle_request: a Server made of a Router and a MiddlewareStack *)
(***************************************************************************)
\* Server::new and Server::serve: the server takes the router and the stack
\* as the application built them, and serves
serve ==
    /\ Configuring
    /\ listening' = TRUE
    /\ UNCHANGED <<failed, cache, called, dispatches, matched, stack, router, dispatch>>

\* handle_request is entered: the request and the response are wrapped and
\* self.middleware_stack.invoke is called
handle_request(method, uri) ==
    /\ listening
    /\ pc \in {"idle", "served"}
    /\ pc' = "handlers"
    /\ req' = <<NewRequest(method, uri)>>
    /\ res' = <<NewResponse>>
    /\ i' = 1
    /\ err' = <<>>
    /\ j' = 0
    /\ calls' = <<>>
    /\ ecalls' = <<>>
    /\ hcalls' = <<>>
    /\ ended' = <<>>
    /\ unhandled' = 0
    /\ matched' = <<>>
    /\ UNCHANGED <<failed, cache, called, dispatches, stack, router, listening>>

\* nickel_res when invoke has returned: the response as the stack left it,
\* passed on by the last middleware, carried by the error, ended by bail, or
\* halted
nickel_res ==
    IF res # <<>> THEN res[1]
    ELSE IF err # <<>> /\ err[1].stream # <<>> THEN err[1].stream[1]
    ELSE IF err # <<>> THEN Last(calls).result.ended[1].res[1]
    ELSE Last(calls).result.res[1]

\* the rest of handle_request with the handler called before the status and
\* the parameters are set
route_request_handler_first ==
    /\ pc = "returned"
    /\ pc' = "served"
    /\ IF req[1].uri.abs
       THEN LET route_result == match_route(router, req[1].method, req[1].uri.url)
            IN  /\ matched' = << [routes |-> router, method |-> req[1].method,
                                  path |-> req[1].uri.url, result |-> route_result] >>
                /\ IF route_result.found
                   THEN LET h == router[route_result.route].handler
                        IN  /\ res' = <<[handle(h, req[1], nickel_res)
                                            EXCEPT !.status = "Ok"]>>
                            /\ req' = <<[req[1] EXCEPT !.params = route_result.params]>>
                            /\ hcalls' = Append(hcalls,
                                              [handler |-> h,
                                               route   |-> route_result.route,
                                               status  |-> nickel_res.status,
                                               params  |-> req[1].params,
                                               json    |-> json_as(req[1])])
                   ELSE UNCHANGED <<req, res, hcalls>>
       ELSE UNCHANGED <<matched, req, res, hcalls>>
    /\ UNCHANGED <<failed, cache, called, dispatches, stack, router, listening,
                   i, err, j, calls, ecalls, ended, unhandled>>

\* the rest of handle_request, after invoke has returned: for an absolute
\* path the router is asked for the route; on Some the status is set to Ok,
\* the parameters are stored and the handler of the route is called; on None
\* and for every other request URI nothing is done
route_request ==
    /\ pc = "returned"
    /\ pc' = "served"
    /\ IF req[1].uri.abs
       THEN LET route_result == match_route(router, req[1].method, req[1].uri.url)
            IN  /\ matched' = << [routes |-> router, method |-> req[1].method,
                                  path |-> req[1].uri.url, result |-> route_result] >>
                /\ IF route_result.found
                   THEN LET res1 == [nickel_res EXCEPT !.status = "Ok"]
                            req1 == [req[1] EXCEPT !.params = route_result.params]
                            h    == router[route_result.route].handler
                        IN  /\ res' = <<handle(h, req1, res1)>>
                            /\ req' = <<req1>>
                            /\ hcalls' = Append(hcalls,
                                              [handler |-> h,
                                               route   |-> route_result.route,
                                               status  |-> res1.status,
                                               params  |-> req1.params,
                                               json    |-> json_as(req1)])
                   ELSE UNCHANGED <<req, res, hcalls>>
       ELSE UNCHANGED <<matched, req, res, hcalls>>
    /\ UNCHANGED <<failed, cache, called, dispatches, stack, router, listening,
                   i, err, j, calls, ecalls, ended, unhandled>>

ServerNext ==
    \/ \E m \in Methods, p \in RoutePaths : add_route(m, p)
    \/ \E a \in UserActs : utilize(a)
    \/ \E a \in {"Continue", "Halt"} : handle_error(a)
    \/ serve
    \/ \E m \in Methods, u \in RequestUris : handle_request(m, u)
    \/ invoke_next
    \/ route_request

ServerSpec == Init /\ [][ServerNext]_vars

(***************************************************************************)
(* A Router on its own: routes are added, and match_route is called        *)
(***************************************************************************)
\* the route patterns of the route table
TablePaths ==
    { <<"/", "a">>, <<"/", ":", "u">>, <<"/", "*", "*">>,
      <<"/", "a", "/", ":", "u">>, <<"/", "a", "/", "*">> }

\* the paths match_route is tried on
MatchPaths ==
    { <<"/", "a">>, <<"/", "b">>, <<"/">>, <<"/", "a", "?", "x">>,
      <<"/", "a", "/", "b">>, <<"/", "a", "/">> }

\* a call of Router::match_route on the router being built
call_match_route(method, path) ==
    /\ ~failed
    /\ matched' = << [routes |-> router, method |-> method, path |-> path,
                      result |-> match_route(router, method, path)] >>
    /\ UNCHANGED <<failed, cache, called, dispatches, router, nickel, dispatch>>

RouterNext ==
    \/ \E m \in Methods, p \in TablePaths : Len(router) < MaxTable /\ add_route(m, p)
    \/ \E m \in Methods, p \in MatchPaths : call_match_route(m, p)

RouterSpec == Init /\ [][RouterNext]_vars

(***************************************************************************)
(* The route table under all three operations of a Router: add_route,      *)
(* match_route, and invoke as a middleware                                 *)
(***************************************************************************)
\* Router::invoke called with a new request and a Fresh response
call_router_invoke(method, uri) ==
    /\ ~failed
    /\ LET request == NewRequest(method, uri)
           r       == RouterInvoke(router, request, NewResponse)
       IN  /\ calls' = << [idx |-> 1, mw |-> RouterMiddleware(router),
                            req |-> request, res |-> NewResponse, result |-> r] >>
           /\ hcalls' = r.hcalls
    /\ UNCHANGED <<failed, cache, called, dispatches, matched, router, nickel,
                   pc, req, res, i, err, j, ecalls, ended, unhandled>>

\* route paths whose expression Regex::new rejects: a group that is opened
\* and not closed, and one that is closed and was not opened
UncompilablePaths == { <<"/", "(", "a">>, <<"/", "a", ")">> }

TableNext ==
    \/ \E m \in Methods, p \in RoutePaths \cup UncompilablePaths :
          Len(router) < MaxTable /\ add_route(m, p)
    \/ \E m \in Methods, u \in RequestUris : call_match_route(m, u.url)
    \/ \E m \in Methods, u \in RequestUris : call_router_invoke(m, u)

TableSpec == Init /\ [][TableNext]_vars

(***************************************************************************)
(* One route and the paths it is matched against: patterns and paths are   *)
(* built segment by segment, as in the patterns of router.rs' tests        *)
(* (foo/:uid/bar/:groupid, foo/*/bar, foo/**/bar)                          *)
(***************************************************************************)
\* a literal, the single wildcard, the double wildcard, two variables
PatternSegments ==
    { <<"a">>, <<"*">>, <<"*", "*">>, <<":", "u">>, <<":", "v">> }

\* a segment equal to the literal, and one with a comma
PathSegments == { <<"a">>, <<"b", ",", "c">> }

\* no query string, one of the characters REGEX_PARAM_SEQ names, one with a comma
Queries ==
    { <<>>, <<"?", "k", "=", "1">>, <<"?", "k", "=", "1", ",", "2">> }

\* the non-empty sequences of at most n elements of S
SeqsUpTo(S, n) == UNION { [1..k -> S] : k \in 1..n }

\* every segment preceded by a '/'
RECURSIVE JoinSegments(_)
JoinSegments(segs) ==
    IF segs = <<>> THEN <<>>
    ELSE <<"/">> \o Head(segs) \o JoinSegments(Tail(segs))

SegmentPatterns ==
    { JoinSegments(ps) : ps \in SeqsUpTo(PatternSegments, MaxPatternSegments) }

SegmentPaths ==
    { JoinSegments(ss) \o q : ss \in SeqsUpTo(PathSegments, MaxPathSegments),
                              q \in Queries }

PathNext ==
    \/ \E p \in SegmentPatterns : router = <<>> /\ add_route("Get", p)
    \/ \E path \in SegmentPaths :
          router # <<>> /\ matched = <<>> /\ call_match_route("Get", path)

PathSpec == Init /\ [][PathNext]_vars

(***************************************************************************)
(* One route whose pattern has neither variables nor wildcards             *)
(* (router.get("/user", handler)), and the paths it is matched against     *)
(***************************************************************************)
\* the characters of the literal patterns
LiteralChars == {"a", ".", "/"}

\* the characters of the paths: the pattern's letter in both cases, another
\* letter, the separator and the start of a query string
LiteralPathChars == {"a", "A", "b", "/", "?"}

LiteralPatterns ==
    { <<"/">> \o p : p \in SeqsUpTo(LiteralChars, MaxLiteralLength) }

LiteralPaths ==
    { <<"/">> \o p : p \in SeqsUpTo(LiteralPathChars, MaxLiteralLength + 1) }

LiteralNext ==
    \/ \E p \in LiteralPatterns : router = <<>> /\ add_route("Get", p)
    \/ \E path \in LiteralPaths :
          router # <<>> /\ matched = <<>> /\ call_match_route("Get", path)

LiteralSpec == Init /\ [][LiteralNext]_vars

(***************************************************************************)
(* Concurrent calls of Response::render on one TemplateCache.  A renderer  *)
(* takes a step when the RwLock lets it: read() waits while a writer holds *)
(* the lock, write() waits while anyone holds it.                          *)
(***************************************************************************)
\* the renderer is at position pc of its call
At(p, pc_) == renders[p].pc = pc_

\* the render whose read guard lives on after the if let found nothing
render_read_keeps_guard(p, path) ==
    /\ At(p, "idle")
    /\ rwlock.writer = 0
    /\ LET found == get(templates, path)
       IN  /\ renders' = [renders EXCEPT ![p] =
                  [@ EXCEPT !.path = path, !.read = found, !.template = found,
                            !.pc = IF found = <<>> THEN "miss" ELSE "fast"]]
           /\ rwlock' = [rwlock EXCEPT !.readers = @ \cup {p}]
    /\ UNCHANGED <<failed, templates, called, dispatches, matched, router, nickel, dispatch>>

\* render is called: self.templates.read().unwrap().get(path).  On Some the
\* read guard lives on while the template is rendered; on None it is dropped
\* at the end of the if let.
render_read(p, path) ==
    /\ At(p, "idle")
    /\ rwlock.writer = 0
    /\ LET found == get(templates, path)
       IN  /\ renders' = [renders EXCEPT ![p] =
                  [@ EXCEPT !.path = path, !.read = found, !.template = found,
                            !.pc = IF found = <<>> THEN "miss" ELSE "fast"]]
           /\ rwlock' = IF found = <<>> THEN rwlock
                        ELSE [rwlock EXCEPT !.readers = @ \cup {p}]
    /\ UNCHANGED <<failed, templates, called, dispatches, matched, router, nickel, dispatch>>

\* the fast path: return render(self, t, data), and the read guard is dropped
render_fast(p, io) ==
    /\ At(p, "fast")
    /\ renders' = [renders EXCEPT ![p] =
           [@ EXCEPT !.pc = "done",
                     !.result = <<render_template(NewResponse, renders[p].template[1], io)>>]]
    /\ rwlock' = [rwlock EXCEPT !.readers = @ \ {p}]
    /\ UNCHANGED <<failed, templates, called, dispatches, matched, router, nickel, dispatch>>

\* self.templates.write().unwrap()
render_write(p) ==
    /\ At(p, "miss")
    /\ rwlock = Unlocked
    /\ rwlock' = [rwlock EXCEPT !.writer = p]
    /\ renders' = [renders EXCEPT ![p] = [@ EXCEPT !.pc = "locked"]]
    /\ UNCHANGED <<failed, templates, called, dispatches, matched, router, nickel, dispatch>>

\* match templates.entry(path.clone()); when compile_path fails the call
\* returns the error and the write guard is dropped
render_entry(p, ok) ==
    /\ At(p, "locked")
    /\ LET e == entry_or_compile(templates, renders[p].path, p, ok)
       IN  /\ templates' = e.map
           /\ IF e.template = <<>>
              THEN /\ renders' = [renders EXCEPT ![p] =
                         [@ EXCEPT !.pc = "done",
                                   !.entry = get(templates, renders[p].path),
                                   !.compiled = e.compiled,
                                   !.result = <<MethodResult("Err", <<>>,
                                                   <<try_with(NewResponse)>>, <<>>)>>]]
                   /\ rwlock' = [rwlock EXCEPT !.writer = 0]
              ELSE /\ renders' = [renders EXCEPT ![p] =
                         [@ EXCEPT !.pc = "slow",
                                   !.entry = get(templates, renders[p].path),
                                   !.compiled = e.compiled,
                                   !.template = e.template]]
                   /\ UNCHANGED rwlock
    /\ UNCHANGED <<failed, called, dispatches, matched, router, nickel, dispatch>>

\* render(self, template, data) at the end of the slow path, and the write
\* guard is dropped
render_slow(p, io) ==
    /\ At(p, "slow")
    /\ renders' = [renders EXCEPT ![p] =
           [@ EXCEPT !.pc = "done",
                     !.result = <<render_template(NewResponse, renders[p].template[1], io)>>]]
    /\ rwlock' = [rwlock EXCEPT !.writer = 0]
    /\ UNCHANGED <<failed, templates, called, dispatches, matched, router, nickel, dispatch>>

RenderNext ==
    \/ \E p \in Renderers, path \in TemplatePaths : render_read(p, path)
    \/ \E p \in Renderers, io \in StreamOutcomes : render_fast(p, io)
    \/ \E p \in Renderers : render_write(p)
    \/ \E p \in Renderers, ok \in BOOLEAN : render_entry(p, ok)
    \/ \E p \in Renderers, io \in StreamOutcomes : render_slow(p, io)

RenderSpec == Init /\ [][RenderNext]_vars

\* the steps of one call of render after it was entered
render_step(p) ==
    \/ \E io \in StreamOutcomes : render_fast(p, io)
    \/ render_write(p)
    \/ \E ok \in BOOLEAN : render_entry(p, ok)
    \/ \E io \in StreamOutcomes : render_slow(p, io)

\* the threads that serve the requests are scheduled fairly: a call of
\* render that can take its next step takes it
RenderFairSpec == RenderSpec /\ \A p \in Renderers : WF_vars(render_step(p))

(***************************************************************************)
(* One Response in the hands of a handler and of the pipeline: the methods *)
(* of Response<Fresh> are called on a response that was not started, those *)
(* of Response<Streaming> on one that was; a method that takes self uses   *)
(* the response up.  res holds the response wherever it lives on: with the *)
(* handler, inside Halt, or as the stream of the error.                    *)
(***************************************************************************)
\* the statuses a handler sets
Statuses == {"Accepted", "NotFound"}

\* the types of the headers a handler sets
HeaderTypes == {"Date", "Server", "ContentType", "ContentLength"}

\* the value a handler sets, and the value its fallback closure returns
HeaderValues == {"app"}

\* what is left unchanged by the methods of a Response
beside_response ==
    <<failed, rwlock, renders, dispatches, matched, router, nickel, pc, req, i,
      err, j, calls, ecalls, hcalls, unhandled>>

\* Response<'a, Fresh>
IsFresh(r) == r # <<>> /\ ~r[1].started

\* Response<'a, Streaming>
IsStreaming(r) == r # <<>> /\ r[1].started

\* the record of a call: the method, the response before the call, the
\* MiddlewareResult when the method returns one, the response after the
\* call, the fallback closures that were called
Call(op, before, result, after, closures) ==
    [op |-> op, before |-> before, result |-> result, after |-> after,
     closures |-> closures]

\* a method returns a MiddlewareResult: the response lives on as the stream
\* inside Halt or as the stream of the error
Returns(op, r, closures) ==
    /\ res' = IF r.tag = "Halt" THEN r.res ELSE r.err[1].stream
    /\ ended' = ended \o r.ended
    /\ called' = <<Call(op, res, <<r>>, res', closures)>>

\* Response::from_internal: the server makes the response of a request
call_from_internal ==
    /\ res = <<>>
    /\ called = <<>>
    /\ res' = <<NewResponse>>
    /\ called' = <<Call("from_internal", res, <<>>, res', <<>>)>>
    /\ UNCHANGED <<ended, templates, beside_response>>

\* res.set(StatusCode): *res.status_mut() = status
call_set_status(status) ==
    /\ IsFresh(res)
    /\ res' = <<[res[1] EXCEPT !.status = status]>>
    /\ called' = <<Call("set_status", res, <<>>, res', <<>>)>>
    /\ UNCHANGED <<ended, templates, beside_response>>

\* res.set(header): res.headers_mut().set(header)
call_set_header(h, v) ==
    /\ IsFresh(res)
    /\ res' = <<[res[1] EXCEPT !.headers = headers_set(@, h, v)]>>
    /\ called' = <<Call("set_header", res, <<>>, res', <<>>)>>
    /\ UNCHANGED <<ended, templates, beside_response>>

\* Response::set_header_fallback with a closure that returns a header of type h
call_set_header_fallback(h, f) ==
    /\ IsFresh(res)
    /\ LET o == set_header_fallback(res[1], h, f)
       IN  /\ res' = <<o.res>>
           /\ called' = <<Call("set_header_fallback", res, <<>>, res', o.called)>>
    /\ UNCHANGED <<ended, templates, beside_response>>

\* Response::start; ok: HyperResponse::start returned Ok
call_start(ok) ==
    /\ IsFresh(res)
    /\ res' = IF ok THEN <<start(res[1])>> ELSE <<>>
    /\ called' = <<Call("start", res,
                        IF ok THEN <<>>
                        ELSE <<MethodResult("Err", <<>>, <<without_response>>, <<>>)>>,
                        res', set_fallback_headers(res[1]).called)>>
    /\ UNCHANGED <<ended, templates, beside_response>>

\* Response::error
call_error(status) ==
    /\ IsFresh(res)
    /\ Returns("error", error(res[1], status), <<>>)
    /\ UNCHANGED <<templates, beside_response>>

\* Response::send_file
call_send_file(path, opened, io) ==
    /\ IsFresh(res)
    /\ Returns("send_file", send_file(res[1], path, opened, io), <<>>)
    /\ UNCHANGED <<templates, beside_response>>

\* Response::render, no other request at work on the cache
call_render(path, ok, io) ==
    /\ IsFresh(res)
    /\ LET found == get(templates, path)
           e     == entry_or_compile(templates, path, 0, ok)
           t     == IF found # <<>> THEN found ELSE e.template
       IN  /\ templates' = IF found # <<>> THEN templates ELSE e.map
           /\ Returns("render",
                      IF t = <<>>
                      THEN MethodResult("Err", <<>>, <<try_with(res[1])>>, <<>>)
                      ELSE render_template(res[1], t[1], io),
                      <<>>)
    /\ UNCHANGED beside_response

\* Write for Response<Streaming>: write
call_write ==
    /\ IsStreaming(res)
    /\ Len(res[1].marks) < MaxWrites
    /\ res' = <<Mark(res[1], "write")>>
    /\ called' = <<Call("write", res, <<>>, res', <<>>)>>
    /\ UNCHANGED <<ended, templates, beside_response>>

\* Response::bail
call_bail ==
    /\ IsStreaming(res)
    /\ Returns("bail", bail(res[1]), <<>>)
    /\ UNCHANGED <<templates, beside_response>>

\* Response::end
call_end ==
    /\ IsStreaming(res)
    /\ res' = <<>>
    /\ ended' = ended \o end(res[1])
    /\ called' = <<Call("end", res, <<>>, res', <<>>)>>
    /\ UNCHANGED <<templates, beside_response>>

ResponseNext ==
    \/ call_from_internal
    \/ \E s \in Statuses : call_set_status(s)
    \/ \E h \in HeaderTypes, v \in HeaderValues : call_set_header(h, v)
    \/ \E h \in HeaderTypes : call_set_header_fallback(h, "fallback")
    \/ \E ok \in BOOLEAN : call_start(ok)
    \/ \E s \in Statuses : call_error(s)
    \/ \E path \in FilePaths, opened \in BOOLEAN, io \in StreamOutcomes :
          call_send_file(path, opened, io)
    \/ \E path \in TemplatePaths, ok \in BOOLEAN, io \in StreamOutcomes :
          call_render(path, ok, io)
    \/ call_write
    \/ call_bail
    \/ call_end

ResponseSpec == Init /\ [][ResponseNext]_vars

(***************************************************************************)
(* Concurrent dispatches: the application builds its stack and listens,    *)
(* then the server calls invoke for two requests at the same time; a step  *)
(* is one pass of a loop of one of the calls                               *)
(***************************************************************************)
\* the requests that arrive at the same time
ConcurrentRequests == {"Get"} \X RequestUris

\* the server calls middleware_stack.invoke for a request
arrive(d, method, uri) ==
    /\ listening
    /\ dispatches[d] = <<>>
    /\ dispatches' = [dispatches EXCEPT ![d] = <<NewDispatch(method, uri)>>]
    /\ UNCHANGED <<failed, cache, called, matched, router, nickel, dispatch>>

\* a pass that takes the handler it invoked off the stack
dispatch_step_consuming(d) ==
    /\ dispatches[d] # <<>>
    /\ dispatches[d][1].pc # "returned"
    /\ dispatches' = [dispatches EXCEPT ![d] =
           <<invoke_step(handlers, error_handlers, dispatches[d][1])>>]
    /\ handlers' = IF dispatches[d][1].pc = "handlers" /\ handlers # <<>>
                   THEN Tail(handlers) ELSE handlers
    /\ UNCHANGED <<failed, cache, called, matched, router, error_handlers, utilized, handled,
                   listening, dispatch>>

\* one of the calls of invoke makes its next pass
dispatch_step(d) ==
    /\ dispatches[d] # <<>>
    /\ dispatches[d][1].pc # "returned"
    /\ dispatches' = [dispatches EXCEPT ![d] =
           <<invoke_step(handlers, error_handlers, dispatches[d][1])>>]
    /\ UNCHANGED <<failed, cache, called, matched, router, nickel, dispatch>>

ConcurrentNext ==
    \/ \E m \in Methods, p \in RoutePaths : Registrations < MaxStack /\ add_route(m, p)
    \/ \E a \in UserActs : Registrations < MaxStack /\ utilize(a)
    \/ Registrations < MaxStack /\ utilize_router
    \/ \E a \in {"Continue", "Halt"} : Registrations < MaxStack /\ handle_error(a)
    \/ listen
    \/ \E d \in Dispatchers, r \in ConcurrentRequests : arrive(d, r[1], r[2])
    \/ \E d \in Dispatchers : dispatch_step(d)

ConcurrentSpec == Init /\ [][ConcurrentNext]_vars

(***************************************************************************)
(* An application that registers the JSON body parser among its routers,   *)
(* and a request with a body                                               *)
(***************************************************************************)
\* no body, an object, a number, a text that is no JSON
Bodies == { <<>>, <<"{", "}">>, <<"1">>, <<"{">> }

\* the server calls middleware_stack.invoke for a request with a body
arrive_with_body(d, method, uri, body) ==
    /\ listening
    /\ dispatches[d] = <<>>
    /\ dispatches' = [dispatches EXCEPT ![d] =
           <<[NewDispatch(method, uri) EXCEPT
                 !.req = <<[NewRequest(method, uri) EXCEPT !.body = body]>>]>>]
    /\ UNCHANGED <<failed, cache, called, matched, router, nickel, dispatch>>

JsonNext ==
    \/ \E p \in RoutePaths : add_route("Get", p)
    \/ utilize_router
    \/ utilize_json_body_parser
    \/ utilize("Continue")
    \/ listen
    \/ \E u \in RequestUris, b \in Bodies : arrive_with_body("first", "Get", u, b)
    \/ dispatch_step("first")

JsonSpec == Init /\ [][JsonNext]_vars

(***************************************************************************)
(* An application that registers its routes one by one through             *)
(* Nickel::add_route, with middlewares in between                          *)
(***************************************************************************)
ChainNext ==
    \/ \E m \in Methods, p \in RoutePaths : nickel_add_route(m, p)
    \/ utilize("Continue")
    \/ listen
    \/ \E m \in Methods, u \in RequestUris : arrive("first", m, u)
    \/ dispatch_step("first")

ChainSpec == Init /\ [][ChainNext]_vars

(***************************************************************************)
(* A StaticFilesHandler invoked on a request, with a response that the     *)
(* middlewares before it may have set a status and a header on             *)
(***************************************************************************)
StaticMethods == {"Get", "Head", "Post", "Delete"}

\* the request paths: the root, a file name with an extension the media
\* types know, one they do not know, one without extension, and a URI that
\* is not an absolute path
StaticUris ==
    { [abs |-> TRUE,  url |-> <<"/">>],
      [abs |-> TRUE,  url |-> <<"/", "test", ".", "txt">>],
      [abs |-> TRUE,  url |-> <<"/", "test", ".", "zz">>],
      [abs |-> TRUE,  url |-> <<"/", "a">>],
      [abs |-> FALSE, url |-> <<"*">>] }

\* the Fresh responses the handler is given
GivenResponses ==
    { NewResponse,
      [NewResponse EXCEPT !.status = "Accepted",
                          !.headers = headers_set(<<>>, "ContentLength", "app")] }

\* StaticFilesHandler::invoke is called; the call is recorded with what
\* fs::metadata returned
call_static_invoke(method, uri, given, attr, opened, io) ==
    /\ ~failed
    /\ calls' = << [idx |-> 1, mw |-> StaticMiddleware,
                     req |-> NewRequest(method, uri), res |-> given, attr |-> attr,
                     result |-> StaticInvoke(NewRequest(method, uri), given,
                                             attr, opened, io)] >>
    /\ UNCHANGED <<failed, cache, called, dispatches, matched, router, nickel,
                   pc, req, res, i, err, j, ecalls, hcalls, ended, unhandled>>

StaticNext ==
    \E method \in StaticMethods, uri \in StaticUris, given \in GivenResponses,
       attr \in Metadata, opened \in BOOLEAN, io \in StreamOutcomes :
        call_static_invoke(method, uri, given, attr, opened, io)

StaticSpec == Init /\ [][StaticNext]_vars

(***************************************************************************)
(* Properties of MiddlewareStack::invoke                                   *)
(***************************************************************************)
\* the middlewares in registration order: those utilized, then the one listen adds
Registered == utilized \o (IF listening THEN <<NotFoundMiddleware>> ELSE <<>>)

\* the end calls the pipeline itself made (not those inside a middleware)
PipelineEnds == SelectSeq(ended, LAMBDA e : e.by # "bail")

\* C1: the middlewares are invoked one after another in registration order, each
\* at most once; the k-th is invoked only after the (k-1)-th returned Continue
\* and receives the response that one returned inside Continue.
C1_StrictSequence ==
    \A k \in 1..Len(calls) :
        /\ calls[k].idx = k
        /\ k <= Len(Registered) /\ calls[k].mw = Registered[k]
        /\ k > 1 => /\ calls[k-1].result.tag = "Continue"
                    /\ calls[k].res = calls[k-1].result.res[1]

\* three middlewares were invoked, the third with a response the first two changed
C1_Witness ==
    /\ Len(calls) = 3
    /\ calls[3].res # NewResponse
    /\ calls[2].res # calls[3].res

\* C2: when a middleware returns Halt(R), it and every earlier middleware were
\* invoked exactly once, no later middleware and no error handler is invoked,
\* and the response that is ended is R.
C2_HaltStops ==
    \A k \in 1..Len(calls) :
        calls[k].result.tag = "Halt" =>
            /\ k = Len(calls)
            /\ \A m \in 1..k : calls[m].idx = m
            /\ ecalls = <<>>
            /\ unhandled = 0
            /\ pc = "returned"
            /\ PipelineEnds = end(calls[k].result.res[1])

\* the second of three middlewares halted, with an application error handler registered
C2_Witness ==
    /\ Len(calls) = 2
    /\ calls[2].result.tag = "Halt"
    /\ Len(handlers) = 3
    /\ Len(error_handlers) = 2
    /\ pc = "returned"

\* C3: after an error the error handlers are consulted in reverse registration
\* order; the traversal stops at the first Halt, the error (with the response it
\* carries, if any) is then ended, and no earlier-registered handler is consulted.
C3_ReverseTraversal ==
    /\ ecalls # <<>> => calls # <<>> /\ Last(calls).result.tag = "Err"
    /\ \A k \in 1..Len(ecalls) :
          /\ ecalls[k].idx = Len(handled) - k + 1
          /\ ecalls[k].eh = handled[ecalls[k].idx]
          /\ k < Len(ecalls) => ecalls[k].action = "Continue"
          /\ ecalls[k].action = "Halt" =>
                /\ pc = "returned"
                /\ unhandled = 0
                /\ PipelineEnds = << EndCall("error", err[1].stream) >>

\* of [default, E1, E2], E2 continued and E1 halted an error that carries a response
C3_Witness ==
    /\ Len(error_handlers) = 3
    /\ Len(ecalls) = 2
    /\ ecalls[1].idx = 3 /\ ecalls[1].action = "Continue"
    /\ ecalls[2].idx = 2 /\ ecalls[2].action = "Halt"
    /\ err[1].stream # <<>>
    /\ pc = "returned"


\* C4 as stated: whatever the stack, when invoke has returned exactly one of
\* "a response was finalized" and "the error was logged as unhandled" happened.
C4_ExactlyOneOutcome ==
    pc = "returned" => ((PipelineEnds # <<>>) # (unhandled > 0))

\* every middleware of the stack was invoked and returned Continue
AllContinued ==
    /\ Len(calls) = Len(handlers)
    /\ \A k \in 1..Len(calls) : calls[k].result.tag = "Continue"

\* C4 (amended): when invoke has returned, the pipeline has made exactly one end
\* call or logged exactly one unhandled error, never both, unless every
\* middleware returned Continue, and then neither; after Nickel::listen the
\* not-found middleware is last, so exactly one of the two always happens.
C4_ExactlyOneUnlessExhausted ==
    pc = "returned" =>
        /\ AllContinued => PipelineEnds = <<>> /\ unhandled = 0
        /\ ~AllContinued => Len(PipelineEnds) + unhandled = 1
        /\ listening => Len(PipelineEnds) + unhandled = 1

\* a listening server answered a request no application middleware halted
C4_Witness ==
    /\ pc = "returned"
    /\ listening
    /\ Len(calls) = 3
    /\ Len(PipelineEnds) = 1
    /\ unhandled = 0

\* C5: when a middleware returned an error and every error handler returns
\* Continue, each handler was consulted exactly once, in reverse registration
\* order, before the error is logged as unhandled, and the pipeline ends no response.
C5_UnhandledAfterAll ==
    /\ unhandled > 0 =>
          /\ unhandled = 1
          /\ pc = "returned"
          /\ Len(ecalls) = Len(handled)
          /\ \A k \in 1..Len(ecalls) :
                /\ ecalls[k].eh = handled[Len(handled) - k + 1]
                /\ ecalls[k].action = "Continue"
          /\ PipelineEnds = <<>>
    /\ ( /\ pc = "returned"
         /\ calls # <<>> /\ Last(calls).result.tag = "Err"
         /\ \A k \in 1..Len(ecalls) : ecalls[k].action = "Continue" )
       => unhandled = 1

\* three error handlers continued and the error was logged
C5_Witness ==
    /\ unhandled = 1
    /\ Len(ecalls) = 3
    /\ Len(calls) = 1

\* C6: once a middleware has returned an error, no later middleware is invoked
\* and neither the failing middleware nor an earlier one is invoked again.
C6_NoCallAfterError ==
    \A k \in 1..Len(calls) :
        calls[k].result.tag = "Err" =>
            /\ k = Len(calls)
            /\ pc \in {"error_handlers", "returned"}
            /\ \A a, b \in 1..Len(calls) : a # b => calls[a].idx # calls[b].idx

\* the first of two middlewares failed and the error handlers have all continued
C6_Witness ==
    /\ pc = "returned"
    /\ Len(handlers) >= 2
    /\ Len(calls) = 1
    /\ calls[1].result.tag = "Err"
    /\ unhandled = 1

(***************************************************************************)
(* Properties of Nickel                                                    *)
(***************************************************************************)
\* C7: Nickel::listen appends the not-found middleware exactly once, after every
\* utilized middleware; a request that no utilized middleware halts or fails
\* reaches it and becomes a NotFound status-coded error given to the error handlers.
C7_NotFoundLast ==
    /\ handlers = utilized \o (IF listening THEN <<NotFoundMiddleware>> ELSE <<>>)
    /\ \A k \in 1..Len(utilized) : utilized[k] # NotFoundMiddleware
    /\ ( /\ listening
         /\ pc \in {"error_handlers", "returned"}
         /\ \A k \in 1..Len(calls) :
               calls[k].idx <= Len(utilized) => calls[k].result.tag = "Continue" )
       => /\ Len(calls) = Len(handlers)
          /\ Last(calls).mw = NotFoundMiddleware
          /\ Last(calls).result.tag = "Err"
          /\ Last(calls).result.err[1].kind = "ErrorWithStatusCode"
          /\ Last(calls).result.err[1].status = "NotFound"
          /\ pc = "returned" =>
                /\ ecalls # <<>>
                /\ ecalls[1].err = Last(calls).result.err[1]

\* a middleware continued, a router matched no route, the not-found middleware answered
C7_Witness ==
    /\ listening
    /\ pc = "returned"
    /\ Len(calls) = 3
    /\ calls[2].mw.kind = "router"
    /\ calls[3].mw = NotFoundMiddleware
    /\ ecalls # <<>>

\* C8: the default error handler is the first registered error handler, so for
\* every error all the application's handlers are consulted before it, and an
\* application handler that returns Halt keeps it from being consulted.
C8_DefaultConsultedLast ==
    /\ error_handlers = handled
    /\ handled[1] = DefaultHandler
    /\ \A k \in 2..Len(handled) : handled[k].kind = "user"
    /\ \A k \in 1..Len(ecalls) :
          ecalls[k].eh.kind = "default" =>
              /\ k = Len(handled)
              /\ \A m \in 1..(k-1) : /\ ecalls[m].eh.kind = "user"
                                     /\ ecalls[m].action = "Continue"
    /\ (\E k \in 1..Len(ecalls) : ecalls[k].eh.kind = "user" /\ ecalls[k].action = "Halt")
       => \A m \in 1..Len(ecalls) : ecalls[m].eh.kind # "default"

\* the default handler was consulted after two handlers of the application
C8_Witness ==
    /\ Len(ecalls) = 3
    /\ ecalls[3].eh = DefaultHandler
    /\ ecalls[1].eh.kind = "user"

(***************************************************************************)
(* Properties of Router                                                    *)
(***************************************************************************)
\* the routes of a table whose method is the request's and whose matcher accepts the path
Accepting(routes, method, path) ==
    {k \in 1..Len(routes) : routes[k].method = method /\ is_match(routes[k].matcher, path)}

\* C9: match_route returns the route with the smallest registration index among
\* those with the request's method whose matcher accepts the path, and none
\* when there is no such route.
C9_FirstMatchWins ==
    \A k \in 1..Len(matched) :
        LET rr  == matched[k].result
            acc == Accepting(matched[k].routes, matched[k].method, matched[k].path)
        IN  IF acc = {} THEN ~rr.found
            ELSE /\ rr.found
                 /\ rr.route \in acc
                 /\ \A y \in acc : rr.route <= y

\* of two routes with different patterns that accept the request, the first was returned
C9_Witness ==
    /\ matched # <<>>
    /\ Len(matched[1].routes) = 2
    /\ matched[1].routes[1].path # matched[1].routes[2].path
    /\ Accepting(matched[1].routes, matched[1].method, matched[1].path) = {1, 2}
    /\ matched[1].result.route = 1

\* the router call c found a route
RouteFound(c) ==
    /\ c.mw.kind = "router"
    /\ c.req.uri.abs
    /\ match_route(c.mw.routes, c.req.method, c.req.uri.url).found

\* C10: when the Router is invoked and a route matches, the status is set to Ok
\* and the parameters are stored on the request before the matched route's
\* handler is invoked, exactly once and no other handler, and the Router returns Halt.
C10_RouterHalts ==
    \A k \in 1..Len(calls) :
        RouteFound(calls[k]) =>
            LET c  == calls[k]
                rr == match_route(c.mw.routes, c.req.method, c.req.uri.url)
            IN  /\ c.result.tag = "Halt"
                /\ Len(c.result.hcalls) = 1
                /\ c.result.hcalls[1].handler = c.mw.routes[rr.route].handler
                /\ c.result.hcalls[1].status = "Ok"
                /\ c.result.hcalls[1].params = rr.params
                /\ c.result.req.params = rr.params
                /\ hcalls = c.result.hcalls

\* a route with a variable matched a request whose response did not have status Ok
C10_Witness ==
    \E k \in 1..Len(calls) :
        /\ RouteFound(calls[k])
        /\ calls[k].res.status # "Ok"
        /\ calls[k].result.req.params # <<>>
        /\ calls[k].result.hcalls[1].route = 2

\* the router call c found no route, or its request's URI is not an absolute path
NoRouteFound(c) ==
    /\ c.mw.kind = "router"
    /\ \/ ~c.req.uri.abs
       \/ ~match_route(c.mw.routes, c.req.method, c.req.uri.url).found

\* C11: when the Router is invoked and no route matches, or the request URI is
\* not an absolute path, it returns Continue, invokes no handler, and leaves
\* the response (its status included) and the request's parameters as they were.
C11_RouterContinues ==
    \A k \in 1..Len(calls) :
        NoRouteFound(calls[k]) =>
            /\ calls[k].result.tag = "Continue"
            /\ calls[k].result.hcalls = <<>>
            /\ calls[k].result.res = <<calls[k].res>>
            /\ calls[k].result.res[1].status = calls[k].res.status
            /\ calls[k].result.req = calls[k].req
            /\ calls[k].result.req.params = calls[k].req.params
            /\ k = Len(calls) => hcalls = <<>>

\* a router with a route for the request's method and another path let a request
\* pass whose response an earlier middleware had given another status
C11_Witness ==
    \E k \in 1..Len(calls) :
        /\ NoRouteFound(calls[k])
        /\ calls[k].req.uri.abs
        /\ \E r \in 1..Len(calls[k].mw.routes) :
              calls[k].mw.routes[r].method = calls[k].req.method
        /\ calls[k].res.status # "Ok"
        /\ calls[k].result.tag = "Continue"

(***************************************************************************)
(* Properties of PathUtils and of matching one route                       *)
(***************************************************************************)
\* the length of the segment of s that starts at from: up to the next '/' or '?'
RECURSIVE SegmentLen(_, _)
SegmentLen(s, from) ==
    IF from <= Len(s) /\ s[from] \notin {"/", "?"}
    THEN 1 + SegmentLen(s, from + 1)
    ELSE 0

\* the segments of s[from..], each the text after a '/'; the query string is left out
RECURSIVE SegmentsFrom(_, _)
SegmentsFrom(s, from) ==
    IF from > Len(s) \/ s[from] # "/" THEN <<>>
    ELSE LET n == SegmentLen(s, from + 1)
         IN  <<SubSeq(s, from + 1, from + n)>> \o SegmentsFrom(s, from + 1 + n)

Segments(s) == SegmentsFrom(s, 1)

\* the query string of a path: from the first '?' on
QueryOf(s) ==
    IF \E k \in 1..Len(s) : s[k] = "?"
    THEN SubSeq(s, CHOOSE k \in 1..Len(s) : s[k] = "?" /\ \A m \in 1..(k-1) : s[m] # "?",
                Len(s))
    ELSE <<>>

\* the path without its query string
WithoutQuery(s) == SubSeq(s, 1, Len(s) - Len(QueryOf(s)))

IsVariable(seg) == seg # <<>> /\ seg[1] = ":"

\* the places (segment numbers) of the variables of a pattern, left to right
VariablePlaces(pattern) ==
    LET segs == Segments(pattern)
        F[k \in 0..Len(segs)] ==
            IF k = 0 THEN <<>>
            ELSE IF IsVariable(segs[k]) THEN Append(F[k-1], k) ELSE F[k-1]
    IN  F[Len(segs)]

\* the names of the variables of a pattern, left to right, one per appearance
VariableNames(pattern) ==
    LET segs   == Segments(pattern)
        places == VariablePlaces(pattern)
    IN  [k \in 1..Len(places) |-> Tail(segs[places[k]])]

DistinctNames(pattern) ==
    LET names == VariableNames(pattern)
    IN  \A a, b \in 1..Len(names) : a # b => names[a] # names[b]

Found == matched # <<>> /\ matched[1].result.found

\* the pattern of the route that was matched, and its segments
MatchedPattern == matched[1].routes[matched[1].result.route].path

IsDoubleWildcard(seg) == seg = <<"*", "*">>

IsWildcard(seg) == seg = <<"*">>

\* C13: the variable registered at position i corresponds to capture group i+1
\* of the compiled matcher, also when the pattern has * or ** wildcards (they
\* add no group): match_route returns under each variable name the path
\* segment that stands at the place of the variable (of its last appearance),
\* counted from the front when no ** stands before it and from the back when
\* no ** stands after it.
C13_GroupsFollowVariables ==
    Found =>
        LET route  == matched[1].routes[matched[1].result.route]
            ps     == Segments(route.path)
            ss     == Segments(matched[1].path)
            places == VariablePlaces(route.path)
            names  == VariableNames(route.path)
            params == matched[1].result.params
            caps   == captures(route.matcher, matched[1].path).caps
        IN  /\ Len(caps) = Len(places) + 1
            /\ DOMAIN params = {names[k] : k \in 1..Len(names)}
            /\ \A k \in 1..Len(places) :
                  /\ (\A m \in 1..(places[k] - 1) : ~IsDoubleWildcard(ps[m]))
                        => caps[k] = ss[places[k]]
                  /\ (\A m \in (places[k] + 1)..Len(ps) : ~IsDoubleWildcard(ps[m]))
                        => caps[k] = ss[Len(ss) - (Len(ps) - places[k])]
                  /\ route.variables[names[k]] = k - 1 => params[names[k]] = caps[k]

\* /**/:u/:v matched a path of four segments: u and v are its last two segments
C13_Witness ==
    /\ Found
    /\ MatchedPattern = JoinSegments(<< <<"*", "*">>, <<":", "u">>, <<":", "v">> >>)
    /\ Len(Segments(matched[1].path)) = 4
    /\ matched[1].result.params[<<"u">>] = <<"a">>
    /\ matched[1].result.params[<<"v">>] = <<"b", ",", "c">>

\* segment k of the path is what segment k of the pattern stands for: the
\* literal itself, or any one segment for a variable or a single wildcard
SegmentWise(ps, ss) ==
    /\ Len(ss) = Len(ps)
    /\ \A k \in 1..Len(ps) :
          (~IsVariable(ps[k]) /\ ~IsWildcard(ps[k])) => ss[k] = ps[k]

\* C14: a single wildcard * matches exactly one path segment, never none and
\* never text across a '/': a pattern with * and without ** accepts a path
\* (without query string) exactly when the path has as many segments as the
\* pattern and the literal segments agree; so /a/*/a accepts /a/x/a and
\* rejects /a/a and /a/x/y/a.
C14_WildcardOneSegment ==
    (matched # <<>> /\ QueryOf(matched[1].path) = <<>>) =>
        LET ps == Segments(matched[1].routes[1].path)
            ss == Segments(matched[1].path)
        IN  ( /\ \E k \in 1..Len(ps) : IsWildcard(ps[k])
              /\ \A k \in 1..Len(ps) : ~IsDoubleWildcard(ps[k]) )
            => (matched[1].result.found <=> SegmentWise(ps, ss))

\* /a/*/a accepted a path whose second segment is not the literal
C14_Witness ==
    /\ Found
    /\ MatchedPattern = JoinSegments(<< <<"a">>, <<"*">>, <<"a">> >>)
    /\ matched[1].path = JoinSegments(<< <<"a">>, <<"b", ",", "c">>, <<"a">> >>)

\* the path segments ss are what the pattern segments ps stand for, a double
\* wildcard standing for at least `least` segments
RECURSIVE SegmentMatch(_, _, _)
SegmentMatch(ps, ss, least) ==
    IF ps = <<>> THEN ss = <<>>
    ELSE IF IsDoubleWildcard(Head(ps))
         THEN \E n \in least..Len(ss) :
                 SegmentMatch(Tail(ps), SubSeq(ss, n + 1, Len(ss)), least)
         ELSE /\ ss # <<>>
              /\ (~IsVariable(Head(ps)) /\ ~IsWildcard(Head(ps))) => Head(ss) = Head(ps)
              /\ SegmentMatch(Tail(ps), Tail(ss), least)

\* the call that the state records: a pattern with ** and a path without query string
DoubleWildcardCase ==
    /\ matched # <<>>
    /\ QueryOf(matched[1].path) = <<>>
    /\ \E k \in 1..Len(Segments(matched[1].routes[1].path)) :
          IsDoubleWildcard(Segments(matched[1].routes[1].path)[k])

\* C15 as stated: a double wildcard matches zero or more path segments,
\* including none, so /a/**/a accepts /a/a as well as /a/x/y/a.
C15_DoubleWildcardZeroOrMore ==
    DoubleWildcardCase =>
        (matched[1].result.found <=>
            SegmentMatch(Segments(matched[1].routes[1].path),
                         Segments(matched[1].path), 0))

\* C15 (amended): a double wildcard matches one or more path segments and
\* never none: both '/' around it must be in the path, so /a/**/a accepts
\* /a/x/a and /a/x/y/a and rejects /a/a.
C15_DoubleWildcardOneOrMore ==
    DoubleWildcardCase =>
        (matched[1].result.found <=>
            SegmentMatch(Segments(matched[1].routes[1].path),
                         Segments(matched[1].path), 1))

\* /a/**/a accepted a path with two segments at the place of the double wildcard
C15_Witness ==
    /\ Found
    /\ MatchedPattern = JoinSegments(<< <<"a">>, <<"*", "*">>, <<"a">> >>)
    /\ matched[1].path =
          JoinSegments(<< <<"a">>, <<"b", ",", "c">>, <<"a">>, <<"a">> >>)

\* the pattern with a single wildcard at the place of every double wildcard
WithSingleWildcards(pattern) == Replace(pattern, <<"*", "*">>, <<"*">>)

\* C16: a double wildcard is compiled as one sub-pattern that goes across
\* segments, never as two single wildcards: a pattern with ** accepts the
\* paths with one segment and those with several segments at the place of
\* **, and the same pattern with * for ** rejects the paths with more
\* segments than the pattern.
C16_DoubleWildcardCrossesSegments ==
    DoubleWildcardCase =>
        LET pattern == matched[1].routes[1].path
            ps == Segments(pattern)
            ss == Segments(matched[1].path)
        IN  /\ SegmentWise(Segments(WithSingleWildcards(pattern)), ss)
                  => matched[1].result.found
            /\ SegmentMatch(ps, ss, 1) => matched[1].result.found
            /\ Len(ss) > Len(ps)
                  => ~is_match(create_regex(WithSingleWildcards(pattern)), matched[1].path)

\* a/**/a accepted a path of four segments that a/*/a rejects
C16_Witness ==
    /\ Found
    /\ MatchedPattern = JoinSegments(<< <<"a">>, <<"*", "*">>, <<"a">> >>)
    /\ Len(Segments(matched[1].path)) = 4
    /\ QueryOf(matched[1].path) = <<>>
    /\ ~is_match(create_regex(WithSingleWildcards(MatchedPattern)), matched[1].path)

\* the call that the state records accepted a path that has a query string
FoundWithQuery == Found /\ QueryOf(matched[1].path) # <<>>

\* what match_route returns for the path of the recorded call without its query string
WithoutQueryResult ==
    match_route(matched[1].routes, matched[1].method, WithoutQuery(matched[1].path))

\* C17: when match_route accepts a path and also the path followed by a query
\* string, both calls return the same route and the same parameter mapping,
\* and no value of the mapping has a part of the query string in it.
C17_QueryKeepsParams ==
    FoundWithQuery =>
        /\ WithoutQueryResult.found
        /\ matched[1].result.route = WithoutQueryResult.route
        /\ matched[1].result.params = WithoutQueryResult.params
        /\ \A n \in DOMAIN matched[1].result.params :
              \E k \in 1..Len(Segments(matched[1].path)) :
                  matched[1].result.params[n] = Segments(matched[1].path)[k]

\* a route with two variables accepted a path with a query string
C17_Witness ==
    /\ FoundWithQuery
    /\ DOMAIN matched[1].result.params = {<<"u">>, <<"v">>}
    /\ matched[1].result.params[<<"v">>] = <<"b", ",", "c">>
    /\ QueryOf(matched[1].path) = <<"?", "k", "=", "1">>

\* C18: the query string is ignored for matching: the matcher accepts a path
\* followed by '?' and a query string exactly when it accepts the path alone,
\* whatever characters the query string has.
C18_QueryIgnored ==
    \A k \in 1..Len(matched) :
        LET matcher == matched[k].routes[1].matcher
        IN  is_match(matcher, matched[k].path)
                <=> is_match(matcher, WithoutQuery(matched[k].path))

\* the recorded call: a pattern of literal segments and variables with distinct
\* names, and a path without query string that has a segment for each of them
\* and the pattern's literals at their places
RoundTripCase ==
    /\ matched # <<>>
    /\ QueryOf(matched[1].path) = <<>>
    /\ LET pattern == matched[1].routes[1].path
           ps == Segments(pattern)
       IN  /\ \A k \in 1..Len(ps) : ~IsWildcard(ps[k]) /\ ~IsDoubleWildcard(ps[k])
           /\ VariablePlaces(pattern) # <<>>
           /\ DistinctNames(pattern)
           /\ SegmentWise(ps, Segments(matched[1].path))

\* C19: compile-then-match round trip: when a value is put for each variable
\* of a pattern of literal segments and variables, match_route accepts the
\* path and returns exactly these values under the variables' names, also a
\* value with commas.
C19_RoundTrip ==
    RoundTripCase =>
        LET pattern == matched[1].routes[1].path
            places  == VariablePlaces(pattern)
            names   == VariableNames(pattern)
            ss      == Segments(matched[1].path)
        IN  /\ matched[1].result.found
            /\ DOMAIN matched[1].result.params = {names[k] : k \in 1..Len(names)}
            /\ \A k \in 1..Len(places) :
                  matched[1].result.params[names[k]] = ss[places[k]]

\* /:u/a/:v with a and b,c put for u and v
C19_Witness ==
    /\ RoundTripCase
    /\ MatchedPattern = JoinSegments(<< <<":", "u">>, <<"a">>, <<":", "v">> >>)
    /\ matched[1].path = JoinSegments(<< <<"a">>, <<"a">>, <<"b", ",", "c">> >>)
    /\ matched[1].result.params[<<"u">>] = <<"a">>
    /\ matched[1].result.params[<<"v">>] = <<"b", ",", "c">>

\* the path is the pattern, character for character, or the pattern followed
\* by '?' and characters of REGEX_PARAM_SEQ
ExactOrWithQuery(pattern, path) ==
    /\ Len(path) >= Len(pattern)
    /\ SubSeq(path, 1, Len(pattern)) = pattern
    /\ \/ Len(path) = Len(pattern)
       \/ /\ path[Len(pattern) + 1] = "?"
          /\ \A k \in (Len(pattern) + 2)..Len(path) : path[k] \in ParamChars

\* C20: a pattern of literal characters only is matched exactly: the matcher
\* accepts a path exactly when the path is the pattern character for
\* character, optionally followed by a query string; a path that differs in
\* case, by a trailing '/' or by more characters at either end is rejected.
C20_LiteralExact ==
    \A k \in 1..Len(matched) :
        matched[k].result.found
            <=> ExactOrWithQuery(matched[k].routes[1].path, matched[k].path)

\* the recorded call: a pattern of literal segments and variables only, with
\* a variable as its last segment (/foo/:userid)
VariableLastCase ==
    /\ matched # <<>>
    /\ LET ps == Segments(matched[1].routes[1].path)
       IN  /\ \A k \in 1..Len(ps) : ~IsWildcard(ps[k]) /\ ~IsDoubleWildcard(ps[k])
           /\ IsVariable(Last(ps))

\* C21: a named variable captures within a single path segment: no value
\* match_route returns has a '/' or a '?' in it, and a pattern of literals
\* that ends with a variable (/foo/:userid) rejects the path that stops
\* before the variable (/foo), the path whose literal differs (/bar/4711)
\* and every path with one more segment after the variable.
C21_VariableOneSegment ==
    /\ Found =>
          \A n \in DOMAIN matched[1].result.params :
              \A k \in 1..Len(matched[1].result.params[n]) :
                  matched[1].result.params[n][k] \notin {"/", "?"}
    /\ VariableLastCase =>
          LET ps == Segments(matched[1].routes[1].path)
              ss == Segments(matched[1].path)
          IN  /\ Len(ss) < Len(ps) => ~matched[1].result.found
              /\ Len(ss) > Len(ps) => ~matched[1].result.found
              /\ (\E k \in 1..Len(ps) :
                     ~IsVariable(ps[k]) /\ k <= Len(ss) /\ ss[k] # ps[k])
                    => ~matched[1].result.found

\* /a/:u was tried on a path with a segment after the variable's and rejected it
C21_Witness ==
    /\ VariableLastCase
    /\ matched[1].routes[1].path = JoinSegments(<< <<"a">>, <<":", "u">> >>)
    /\ Segments(matched[1].path) = << <<"a">>, <<"b", ",", "c">>, <<"a">> >>
    /\ ~matched[1].result.found

(***************************************************************************)
(* Properties of Response::render and the TemplateCache                    *)
(***************************************************************************)
\* the renderers that called render for the path
Callers(path) == {p \in Renderers : ~At(p, "idle") /\ renders[p].path = path}

\* the call of the renderer missed the cache on the fast path
Missed(p) == ~At(p, "idle") /\ renders[p].read = <<>>

\* every call for the path has returned
AllDone(path) == Callers(path) # {} /\ \A p \in Callers(path) : At(p, "done")

\* the templates the renderer has seen: in its lookups and in the inner render
Seen(p) == {renders[p].read, renders[p].entry, renders[p].template} \ {<<>>}

Compilers(path) == {p \in Callers(path) : renders[p].compiled = <<TRUE>>}

\* C23: insertion into the template cache is insert-if-absent: compile_path
\* is called only by the holder of the write lock, after it looked again and
\* found the entry still absent; so under every interleaving a path is
\* compiled with success at most once, the entry stored then is never
\* replaced or removed, and every lookup from then on returns this entry.
C23_InsertIfAbsent ==
    /\ \A p \in Renderers :
          /\ (At(p, "locked") \/ At(p, "slow")) => rwlock = [readers |-> {}, writer |-> p]
          /\ renders[p].compiled # <<>> =>
                renders[p].read = <<>> /\ renders[p].entry = <<>>
    /\ \A path \in TemplatePaths :
          /\ Cardinality(Compilers(path)) <= 1
          /\ path \in DOMAIN templates <=> Compilers(path) # {}
          /\ \A p \in Compilers(path) : templates[path] = Template(path, p)
          /\ \A p \in Callers(path) : \A t \in Seen(p) : t = <<templates[path]>>

\* two renderers missed t1 on the fast path; the first to take the write lock
\* compiled it, the second found the entry when it looked again, and a third
\* renderer found it under the read lock
C23_Witness ==
    \E p, q, r \in Renderers :
        /\ Compilers("t1") = {p}
        /\ Missed(q) /\ renders[q].path = "t1" /\ renders[q].compiled = <<>>
        /\ renders[q].entry = <<Template("t1", p)>>
        /\ renders[r].read = <<Template("t1", p)>>
        /\ At(p, "done") /\ At(q, "done") /\ At(r, "done")

(***************************************************************************)
(* Properties of Response                                                  *)
(***************************************************************************)
\* the methods that set the status or a header
Mutators == {"set_status", "set_header", "set_header_fallback"}

\* the methods of Response<Fresh> that call start
StartingMethods == {"start", "error", "send_file", "render"}

\* the methods of Response<Streaming>
StreamingMethods == {"write", "end", "bail"}

\* status and headers of the two responses are the same
SameHead(a, b) == a[1].status = b[1].status /\ a[1].headers = b[1].headers

\* C24: the lifecycle of a response is monotone, NotStarted (Fresh), then
\* Streaming, then Finalized: the status and the headers change only in
\* calls on a response that was not started; a response becomes Streaming
\* only through start (called directly or by error, send_file, render);
\* on a Streaming response only write, end and bail are called, and they
\* leave status and headers as they were sent; end and bail finalize it;
\* no call takes a response back to an earlier state.
C24_Lifecycle ==
    called # <<>> =>
        LET c == called[1]
            b == c.before
            a == c.after
        IN  /\ res = a
            /\ c.op = "from_internal" <=> b = <<>>
            /\ c.op = "from_internal" => IsFresh(a)
            /\ c.op \in Mutators => IsFresh(b) /\ IsFresh(a)
            /\ (a # <<>> /\ b # <<>> /\ ~SameHead(a, b)) => IsFresh(b)
            /\ (IsFresh(b) /\ IsStreaming(a)) =>
                  /\ c.op \in StartingMethods
                  /\ {"Date", "Server", "ContentType"} \subseteq DOMAIN a[1].headers
            /\ c.op = "start" =>
                  /\ IsFresh(b)
                  /\ c.result = <<>> => a = <<start(b[1])>> /\ IsStreaming(a)
                  /\ c.result # <<>> => a = <<>>
            /\ IsStreaming(b) =>
                  /\ c.op \in StreamingMethods
                  /\ ~IsFresh(a)
                  /\ a # <<>> => SameHead(a, b)
            /\ c.op \in StreamingMethods => IsStreaming(b)
            /\ c.op \in {"end", "bail"} =>
                  /\ a = <<>>
                  /\ Last(ended).res = b
            /\ \A k \in 1..Len(ended) :
                  ended[k].res # <<>> => ended[k].res[1].started

\* a response whose status and a header were set while it was Fresh, that was
\* started and written to, has been ended
C24_Witness ==
    /\ called # <<>>
    /\ called[1].op = "end"
    /\ called[1].before[1].status = "Accepted"
    /\ has(called[1].before[1].headers, "ContentLength")
    /\ called[1].before[1].marks = <<"write", "write">>
    /\ res = <<>>

\* the ways the last call can have gone when the stream was started and the
\* copy of the file or the rendering of the template then failed, each with
\* the result of the same call when nothing fails
FailuresAfterStart ==
    IF called = <<>> \/ called[1].op \notin {"send_file", "render"} THEN {}
    ELSE LET b == called[1].before[1]
         IN  IF called[1].op = "send_file"
             THEN { [failed |-> send_file(b, path, TRUE, "write_fails"),
                     sent   |-> send_file(b, path, TRUE, "ok")] : path \in FilePaths }
             ELSE { [failed |-> render_template(b, Template(path, 0), "write_fails"),
                     sent   |-> render_template(b, Template(path, 0), "ok")] :
                    path \in TemplatePaths }

\* the last call was a send_file or a render that failed after start
FailedAfterStart ==
    \E f \in FailuresAfterStart : called[1].result = <<f.failed>>

\* the error handlers an application may have registered
ErrorHandlers == {DefaultHandler, UserHandler("Halt"), UserHandler("Continue")}

\* C25: a failure found after the response was started (the copy of the file
\* in send_file, the rendering of the template in render) is signaled
\* through bail only: the stream is ended, the error that is returned
\* carries no response, and the response that was ended has the status and
\* the headers that were sent; the error handlers consulted for this error
\* leave it without a response, so they and the end of the error write nothing.
C25_BailOnly ==
    \A f \in FailuresAfterStart :
        called[1].result = <<f.failed>> =>
            LET r == f.failed
            IN  /\ r.tag = "Err"
                /\ r.res = <<>>
                /\ r.err[1].stream = <<>>
                /\ res = <<>>
                /\ Len(r.ended) = 1
                /\ r.ended[1].by = "bail"
                /\ Last(ended) = r.ended[1]
                /\ IsStreaming(r.ended[1].res)
                /\ SameHead(r.ended[1].res, f.sent.res)
                /\ r.ended[1].res[1].status = called[1].before[1].status
                /\ \A eh \in ErrorHandlers :
                      LET o == handle_error_of(eh, r.err[1], NewRequest("Get", <<>>))
                      IN  /\ o.err.stream = <<>>
                          /\ err_end(o.err) = <<EndCall("error", <<>>)>>

\* a handler set the status and called send_file; the copy failed after start
C25_Witness ==
    /\ FailedAfterStart
    /\ called[1].op = "send_file"
    /\ called[1].before[1].status = "Accepted"
    /\ Last(ended).by = "bail"
    /\ Last(ended).res[1].status = "Accepted"
    /\ Last(ended).res[1].headers["ContentType"] = "Txt"

(***************************************************************************)
(* Properties of the route table                                           *)
(***************************************************************************)
\* the Route that add_route builds for the k-th registration
RouteOf(method, path, k) ==
    [path      |-> path,
     method    |-> method,
     matcher   |-> create_regex(path),
     handler   |-> k,
     variables |-> get_variable_info(path)]

\* the table holds the routes registered so far, in the order of their
\* registration (the handler of the k-th registration is k)
InRegistrationOrder ==
    \A k \in 1..Len(router) :
        router[k] = RouteOf(router[k].method, router[k].path, k)

\* a step leaves the table as it is or appends one route to it
AppendsOrKeeps ==
    \/ router' = router
    \/ \E m \in Methods, p \in RoutePaths :
          router' = Append(router, RouteOf(m, p, Len(router) + 1))

\* a step of match_route or of Router::invoke leaves the table as it is
LookupKeeps == (matched' # matched \/ calls' # calls) => router' = router

\* C26: the route table is append-only: after any sequence of add_route
\* calls it holds exactly the registered routes in registration order;
\* add_route changes no entry that is there, and match_route and
\* Router::invoke leave the table unchanged.
C26_AppendOnly == []InRegistrationOrder /\ [][AppendsOrKeeps /\ LookupKeeps]_vars

\* two routes were registered, then match_route found the second and
\* the table still holds both in the order of registration
C26_Witness ==
    /\ Len(router) = 2
    /\ router[1].handler = 1 /\ router[2].handler = 2
    /\ matched # <<>>
    /\ matched[1].routes = router
    /\ matched[1].result.found
    /\ matched[1].result.route = 2

(***************************************************************************)
(* Properties of concurrent dispatches                                     *)
(***************************************************************************)
\* the locals of the call of invoke when it was entered
Entered(d) ==
    LET request == IF d.calls = <<>> THEN d.req[1] ELSE d.calls[1].req
    IN  NewDispatch(request.method, request.uri)

\* the states a call of invoke goes through when it runs alone on the stack
RECURSIVE Trajectory(_, _, _)
Trajectory(hs, ehs, d) ==
    IF d.pc = "returned" THEN {d}
    ELSE {d} \cup Trajectory(hs, ehs, invoke_step(hs, ehs, d))

\* the state in which a call of invoke returns when it runs alone on the stack
RECURSIVE Alone(_, _, _)
Alone(hs, ehs, d) ==
    IF d.pc = "returned" THEN d ELSE Alone(hs, ehs, invoke_step(hs, ehs, d))

\* C27: MiddlewareStack::invoke never modifies the lists of middlewares and
\* of error handlers: while requests are dispatched they are the lists the
\* application registered; and under every interleaving of concurrent
\* dispatches each request goes through the handler invocations it goes
\* through when it is dispatched alone, and returns with the same outcome
\* (the handlers share no mutable state).
C27_SharedStack ==
    /\ listening => handlers = Registered /\ error_handlers = handled
    /\ \A d \in Dispatchers :
          dispatches[d] # <<>> =>
              LET s == dispatches[d][1]
              IN  /\ s \in Trajectory(Registered, handled, Entered(s))
                  /\ s.pc = "returned" => s = Alone(Registered, handled, Entered(s))

\* two different requests are dispatched at the same time, each has had a
\* handler invoked and neither has returned
C27_Witness ==
    /\ dispatches["first"] # <<>> /\ dispatches["second"] # <<>>
    /\ dispatches["first"][1].calls # <<>> /\ dispatches["second"][1].calls # <<>>
    /\ dispatches["first"][1].pc # "returned" /\ dispatches["second"][1].pc # "returned"
    /\ Entered(dispatches["first"][1]) # Entered(dispatches["second"][1])
    /\ dispatches["first"][1].i # dispatches["second"][1].i

(***************************************************************************)
(* Properties of a route path that does not compile                        *)
(***************************************************************************)
\* every route of the table holds the Regex its path compiles to
EveryRouteCompiled ==
    \A k \in 1..Len(router) :
        /\ router[k].matcher # Unwinding
        /\ ~Unbalanced(router[k].matcher, 1, 0)
        /\ router[k].matcher = create_regex(router[k].path)

\* a step in which the task fails is a step of add_route: it appends no
\* route, and it is no call of match_route or of Router::invoke
FailsInAddRoute ==
    (failed' /\ ~failed) =>
        /\ router' = router
        /\ matched' = matched
        /\ calls' = calls

\* a call of match_route or of Router::invoke leaves the task as it is, and
\* what it matches against are the matchers add_route compiled
LookupNeverFails ==
    (matched' # matched \/ calls' # calls) =>
        /\ failed' = failed
        /\ ~failed'
        /\ \A k \in 1..Len(router) : router[k].matcher # Unwinding

\* once the task has failed nothing more is registered
FailedIsFinal == failed => (failed' /\ router' = router)

\* C28: a route path whose expression does not compile makes add_route
\* fail at registration: no route is appended to the table for it, and no
\* call that matches a request fails to compile an expression, since the
\* table only holds matchers that add_route compiled.
C28_FailsAtRegistration ==
    /\ []EveryRouteCompiled
    /\ [][FailsInAddRoute /\ LookupNeverFails /\ FailedIsFinal]_vars

\* a route was registered and matched against, then the registration of a
\* path that does not compile failed and left the table with the one route
C28_Witness ==
    /\ failed
    /\ Len(router) = 1
    /\ matched # <<>>
    /\ matched[1].routes = router
    /\ matched[1].result.found

(***************************************************************************)
(* Properties of the parameters match_route returns                        *)
(***************************************************************************)
\* the names of the variables of a pattern, as a set
VariableNameSet(pattern) ==
    LET names == VariableNames(pattern)
    IN  {names[k] : k \in 1..Len(names)}

\* the pattern with its wildcard segments taken out
RECURSIVE WithoutWildcards(_)
WithoutWildcards(segs) ==
    IF segs = <<>> THEN <<>>
    ELSE IF IsWildcard(Head(segs)) \/ IsDoubleWildcard(Head(segs))
         THEN WithoutWildcards(Tail(segs))
         ELSE <<Head(segs)>> \o WithoutWildcards(Tail(segs))

\* C29: for every successful match_route the keys of the returned
\* parameter mapping are exactly the variable names of the matched route,
\* each with one value (a string of the characters a variable takes); the
\* wildcards * and ** add no entries, and a route without variables yields
\* the empty mapping.
C29_ParamsKeyedByVariables ==
    Found =>
        LET ps     == Segments(MatchedPattern)
            params == matched[1].result.params
        IN  /\ DOMAIN params = VariableNameSet(MatchedPattern)
            /\ DOMAIN params = DOMAIN matched[1].routes[matched[1].result.route].variables
            /\ \A n \in DOMAIN params :
                  \A c \in 1..Len(params[n]) : params[n][c] \in VarChars
            /\ DOMAIN params = VariableNameSet(JoinSegments(WithoutWildcards(ps)))
            /\ Cardinality(DOMAIN params)
                  <= Cardinality({k \in 1..Len(ps) : IsVariable(ps[k])})
            /\ (\A k \in 1..Len(ps) : ~IsVariable(ps[k])) => params = <<>>

\* /*/:u/** matched /a/b,c/a: the one entry is u, with the second segment
C29_Witness ==
    /\ Found
    /\ Segments(MatchedPattern) = << <<"*">>, <<":", "u">>, <<"*", "*">> >>
    /\ matched[1].path = JoinSegments(<< <<"a">>, <<"b", ",", "c">>, <<"a">> >>)
    /\ matched[1].result.params = [n \in {<<"u">>} |-> <<"b", ",", "c">>]

(***************************************************************************)
(* Properties of the fallback headers                                      *)
(***************************************************************************)
\* the headers start falls back on, in the order set_fallback_headers takes them
FallbackHeaders == <<"Date", "Server", "ContentType">>

\* the elements of a sequence that are not in a set, in their order
RECURSIVE Missing(_, _)
Missing(hs, present) ==
    IF hs = <<>> THEN <<>>
    ELSE IF Head(hs) \in present THEN Missing(Tail(hs), present)
         ELSE <<Head(hs)>> \o Missing(Tail(hs), present)

\* set_header_fallback on the response b, for every type of header: a
\* header that is there is kept and the closure is not called, one that is
\* not there is set to what the closure returns, no other header changes,
\* and a second fallback for the same type changes nothing
FallbackOnlyWhenAbsent(b) ==
    \A h \in HeaderTypes :
        LET once  == set_header_fallback(b, h, "fallback")
            twice == set_header_fallback(once.res, h, "second")
        IN  /\ has(b.headers, h) => once.res = b /\ once.called = <<>>
            /\ ~has(b.headers, h) =>
                  /\ once.called = <<h>>
                  /\ has(once.res.headers, h)
                  /\ once.res.headers[h] = "fallback"
            /\ \A k \in DOMAIN b.headers : once.res.headers[k] = b.headers[k]
            /\ DOMAIN once.res.headers = DOMAIN b.headers \cup {h}
            /\ twice.res = once.res
            /\ twice.called = <<>>

\* C30: set_header_fallback sets a header only when no header of that type
\* is present: when the header is already set the closure is not called and
\* the value that is there is kept; so start never overrides a Date, Server
\* or Content-Type header set before it, and applying the fallback twice
\* equals applying it once.
C30_FallbackKeepsHeaders ==
    called # <<>> /\ called[1].before # <<>> /\ ~called[1].before[1].started =>
        LET b == called[1].before[1]
        IN  /\ FallbackOnlyWhenAbsent(b)
            /\ set_fallback_headers(set_fallback_headers(b).res)
                  = [res |-> set_fallback_headers(b).res, called |-> <<>>]
            /\ called[1].op = "set_header_fallback" =>
                  LET a == called[1].after[1]
                  IN  /\ called[1].closures = <<>> => a = b
                      /\ \A k \in DOMAIN b.headers :
                            has(a.headers, k) /\ a.headers[k] = b.headers[k]
                      /\ \A h \in HeaderTypes :
                            called[1].closures = <<h>> =>
                                /\ ~has(b.headers, h)
                                /\ a.headers = headers_set(b.headers, h, "fallback")
                      /\ Len(called[1].closures) <= 1
            /\ called[1].op = "start" =>
                  /\ called[1].closures = Missing(FallbackHeaders, DOMAIN b.headers)
                  /\ called[1].after # <<>> =>
                        LET a == called[1].after[1]
                        IN  /\ \A k \in DOMAIN b.headers :
                                  has(a.headers, k) /\ a.headers[k] = b.headers[k]
                            /\ \A k \in 1..Len(FallbackHeaders) :
                                  has(a.headers, FallbackHeaders[k])

\* a handler set Server and Content-Type, then start: the closure of Date
\* alone was called, and the two headers are as the handler set them
C30_Witness ==
    /\ called # <<>>
    /\ called[1].op = "start"
    /\ called[1].after # <<>>
    /\ DOMAIN called[1].before[1].headers = {"Server", "ContentType"}
    /\ called[1].closures = <<"Date">>
    /\ called[1].after[1].headers["Server"] = "app"
    /\ called[1].after[1].headers["ContentType"] = "app"
    /\ called[1].after[1].headers["Date"] = "now_utc"

(***************************************************************************)
(* Properties of the StaticFilesHandler                                    *)
(***************************************************************************)
\* the recorded call of StaticFilesHandler::invoke is one whose request is
\* not a GET or HEAD for an existing regular file
NotAFile(c) ==
    \/ c.req.method \notin {"Get", "Head"}
    \/ ~c.req.uri.abs
    \/ c.attr # "file"

JsonCalls == IF dispatches["first"] = <<>> THEN <<>> ELSE dispatches["first"][1].calls

\* the bodies of the model that are JSON texts
ValidJson == { <<"{", "}">>, <<"1">> }

\* C33: JsonBodyParser::invoke always returns Continue, never an error or
\* Halt: it stores the parsed value on the request only when the body is
\* non-empty and valid JSON; for an empty or malformed body the map of
\* the request is left unchanged; the response is passed on as it was.
C33_ParserAlwaysContinues ==
    \A k \in 1..Len(JsonCalls) :
        LET c == JsonCalls[k]
        IN  c.mw = JsonBodyParser =>
              /\ c.result.tag = "Continue"
              /\ c.result.err = <<>>
              /\ c.result.res = <<c.res>>
              /\ c.result.ended = <<>>
              /\ c.result.hcalls = <<>>
              /\ c.req.body \in ValidJson =>
                    /\ "Json" \in DOMAIN c.result.req.map
                    /\ c.result.req.map["Json"].text = c.req.body
                    /\ c.result.req = [c.req EXCEPT !.map = c.result.req.map]
              /\ c.req.body \notin ValidJson => c.result.req = c.req

\* the parser was invoked on a body that is no JSON, and the pipeline went
\* on to the next middleware with the map of the request still empty
C33_Witness ==
    /\ Len(JsonCalls) >= 2
    /\ JsonCalls[1].mw = JsonBodyParser
    /\ JsonCalls[1].req.body = <<"{">>
    /\ JsonCalls[1].result.tag = "Continue"
    /\ JsonCalls[1].result.req.map = <<>>
    /\ JsonCalls[2].idx = 2

\* the place of a middleware in the order of registration (0: not registered)
RegisteredAt(mw) ==
    IF \E q \in 1..Len(utilized) : utilized[q] = mw
    THEN CHOOSE q \in 1..Len(utilized) : utilized[q] = mw
    ELSE 0

\* a JsonBodyParser was registered before place q
ParserBefore(q) == \E p \in 1..(q - 1) : utilized[p] = JsonBodyParser

\* C32: a route handler observes a parsed JSON body (json_as returns a
\* value) only if a JsonBodyParser was registered before the router that
\* halts the request; a parser registered after the matching router is
\* never invoked for that request, and json_as returns none when no parser
\* was registered before the router.
C32_ParserBeforeRoutes ==
    \A k \in 1..Len(JsonCalls) :
        LET c == JsonCalls[k]
            q == RegisteredAt(c.mw)
        IN  (c.mw.kind = "router" /\ c.result.tag = "Halt") =>
              /\ q > 0
              /\ Len(c.result.hcalls) = 1
              /\ c.result.hcalls[1].json # <<>> => ParserBefore(q)
              /\ ~ParserBefore(q) => c.result.hcalls[1].json = <<>>
              /\ (ParserBefore(q) /\ c.req.body = <<"{", "}">>)
                    => c.result.hcalls[1].json # <<>>
              /\ \A n \in 1..Len(JsonCalls) :
                    JsonCalls[n].mw = JsonBodyParser
                        => \E p \in 1..(q - 1) : utilized[p] = JsonBodyParser
              /\ Len(JsonCalls) = k

\* the parser was registered after the router: the route handler ran for a
\* request with a JSON body, json_as returned none and the parser was not invoked
C32_Witness ==
    /\ Len(utilized) >= 2
    /\ utilized[1].kind = "router"
    /\ utilized[2] = JsonBodyParser
    /\ Len(JsonCalls) = 1
    /\ JsonCalls[1].mw = utilized[1]
    /\ JsonCalls[1].req.body = <<"{", "}">>
    /\ JsonCalls[1].result.tag = "Halt"
    /\ JsonCalls[1].result.hcalls[1].json = <<>>

(***************************************************************************)
(* Properties of the routes registered through Nickel::add_route           *)
(***************************************************************************)
\* the routes of the routers of a stack, in the order of the stack
RECURSIVE RoutesOf(_)
RoutesOf(hs) ==
    IF hs = <<>> THEN <<>> ELSE Head(hs).routes \o RoutesOf(Tail(hs))

\* the dispatch of the chain, once invoke has returned (0 or 1 element)
Returned ==
    IF dispatches["first"] # <<>> /\ dispatches["first"][1].pc = "returned"
    THEN dispatches["first"] ELSE <<>>

\* what a route handler observed, whatever the router it stands in
Observed(h) == [handler |-> h.handler, status |-> h.status, params |-> h.params]

StreamEnds == SelectSeq(ended, LAMBDA e : e.res # <<>>)

\* the error of this request was recovered: an error handler returned Halt
Recovered == ecalls # <<>> /\ Last(ecalls).action = "Halt"

\* a middleware of this request bailed: it ended the stream itself
Bailed == \E k \in 1..Len(ended) : ended[k].by = "bail"

\* C35: a response is ended at most once per request on every path through
\* MiddlewareStack::invoke: on Halt exactly once, by the pipeline; on a
\* recovered error exactly once, through the error; after bail, which
\* ended the stream, the pipeline ends no stream; and on an unhandled error
\* the pipeline ends nothing.
C35_EndAtMostOnce ==
    /\ Len(StreamEnds) <= 1
    /\ pc = "returned" =>
          /\ (calls # <<>> /\ Last(calls).result.tag = "Halt") =>
                /\ ended = end(Last(calls).result.res[1])
                /\ StreamEnds = ended
          /\ (Recovered /\ ~Bailed) =>
                /\ Len(ended) = 1
                /\ ended[1].by = "error"
                /\ ended[1].res = err[1].stream
                /\ Len(StreamEnds) = Len(err[1].stream)
          /\ Bailed =>
                /\ ended[1].by = "bail"
                /\ StreamEnds = <<ended[1]>>
                /\ PipelineEnds = SelectSeq(ended, LAMBDA e : e.by = "error" /\ e.res = <<>>)
          /\ unhandled > 0 => PipelineEnds = <<>>

\* a middleware bailed and an error handler recovered the error: the stream
\* was ended by the bail, and the end of the error ended none
C35_Witness ==
    /\ pc = "returned"
    /\ Bailed
    /\ Recovered
    /\ Len(ended) = 2
    /\ ended[2].by = "error"
    /\ ended[2].res = <<>>
    /\ Len(StreamEnds) = 1

(***************************************************************************)
(* Properties of the locks of Response::render                             *)
(***************************************************************************)
\* a call of render holds the read guard only on the fast path, and none
\* that waits for, or holds, the write lock holds a read guard
NoLockUpgrade ==
    /\ \A p \in Renderers :
          /\ p \in rwlock.readers <=> renders[p].pc = "fast"
          /\ rwlock.writer = p <=> renders[p].pc \in {"locked", "slow"}
    /\ rwlock.writer # 0 => rwlock.readers = {}

\* every call of render that was entered completes
EveryRenderCompletes ==
    \A p \in Renderers : (renders[p].pc # "idle") ~> (renders[p].pc = "done")

\* C36: Response::render never acquires the write lock of the template
\* cache while it holds the read lock: the read guard of the fast path is
\* released before the write lock is requested, so concurrent render calls
\* on the same or on different paths do not deadlock, and each completes
\* under fair scheduling.
C36_NoUpgradeNoDeadlock == []NoLockUpgrade /\ EveryRenderCompletes

\* one call renders on the fast path under its read guard while another,
\* for a path that is not in the cache, waits for the write lock, and a
\* third has completed
C36_Witness ==
    /\ renders[1].pc = "fast"
    /\ 1 \in rwlock.readers
    /\ renders[2].pc = "miss"
    /\ renders[2].path # renders[1].path
    /\ renders[3].pc = "done"

(***************************************************************************)
(* Properties of a failed compile_path in Response::render                 *)
(***************************************************************************)
\* the step in which the compile_path of renderer p fails
CompileFails(p) == renders[p].compiled = <<>> /\ renders'[p].compiled = <<FALSE>>

\* a failing compile_path changes no entry of the cache, and the call
\* returns in the same step
FailureStoresNothing ==
    \A p \in Renderers :
        CompileFails(p) => templates' = templates /\ renders'[p].pc = "done"

\* the renderers whose compile_path of the path failed
FailedCompilers(path) == {p \in Callers(path) : renders[p].compiled = <<FALSE>>}

\* no failure is remembered: an entry exists only for a path that some call
\* compiled, and every call that found the entry vacant under the write lock
\* called compile_path itself, whatever earlier calls for the path did
CompiledAgain ==
    /\ \A path \in TemplatePaths : path \in DOMAIN templates <=> Compilers(path) # {}
    /\ \A p \in Renderers :
          (renders[p].pc \in {"slow", "done"} /\ Missed(p) /\ renders[p].entry = <<>>) =>
              renders[p].compiled # <<>>

\* the result of a call whose compile_path failed is an error that carries
\* the response, and the response is in the given lifecycle state
FailureCarriesResponse(started) ==
    \A p \in Renderers :
        renders[p].compiled = <<FALSE>> =>
            /\ At(p, "done")
            /\ renders[p].template = <<>>
            /\ renders[p].result # <<>>
            /\ renders[p].result[1].tag = "Err"
            /\ renders[p].result[1].ended = <<>>
            /\ renders[p].result[1].err[1].stream # <<>>
            /\ renders[p].result[1].err[1].stream[1].started = started

Invoking == pc \in {"handlers", "error_handlers"}

\* the passes the two loops can still make
PassesLeft ==
    CASE pc = "handlers" -> (Len(handlers) + 1 - i) + Len(error_handlers) + 2
      [] pc = "error_handlers" -> (Len(error_handlers) + 1 - j) + 1
      [] OTHER -> 0

\* every step of a call of invoke leaves fewer passes
FewerPasses == (Invoking /\ pc' # "idle") => PassesLeft' < PassesLeft

\* no middleware and no error handler is invoked twice for one request
AtMostOncePerHandler ==
    /\ Len(calls) <= Len(handlers)
    /\ \A k, m \in 1..Len(calls) : calls[k].idx = calls[m].idx => k = m
    /\ \A k \in 1..Len(calls) : calls[k].idx \in 1..Len(handlers)
    /\ Len(ecalls) <= Len(error_handlers)
    /\ \A k, m \in 1..Len(ecalls) : ecalls[k].idx = ecalls[m].idx => k = m
    /\ \A k \in 1..Len(ecalls) : ecalls[k].idx \in 1..Len(error_handlers)

\* invoke returned after the first Halt of a middleware
AfterFirstHalt ==
    /\ calls # <<>>
    /\ Last(calls).result.tag = "Halt"
    /\ \A k \in 1..(Len(calls) - 1) : calls[k].result.tag = "Continue"
    /\ ecalls = <<>>

\* invoke returned after the traversal of the error handlers, which an error
\* handler halted or which consulted them all
AfterTraversal ==
    /\ calls # <<>>
    /\ Last(calls).result.tag = "Err"
    /\ \A k \in 1..(Len(calls) - 1) : calls[k].result.tag = "Continue"
    /\ \A k \in 1..(Len(ecalls) - 1) : ecalls[k].action = "Continue"
    /\ \/ ecalls # <<>> /\ Last(ecalls).action = "Halt" /\ unhandled = 0
       \/ /\ Len(ecalls) = Len(error_handlers)
          /\ \A k \in 1..Len(ecalls) : ecalls[k].action = "Continue"
          /\ unhandled = 1

\* invoke returned when the list of middlewares was exhausted
AfterExhaustion ==
    /\ Len(calls) = Len(handlers)
    /\ \A k \in 1..Len(calls) : calls[k].result.tag = "Continue"
    /\ ecalls = <<>>

\* invoke has returned in exactly one of the three ways, and is inside a
\* loop as long as none of them has happened
ReturnsWhenDue ==
    /\ pc = "returned" =>
          /\ AfterFirstHalt \/ AfterTraversal \/ AfterExhaustion
          /\ ~(AfterFirstHalt /\ AfterTraversal)
          /\ ~(AfterFirstHalt /\ AfterExhaustion)
          /\ ~(AfterTraversal /\ AfterExhaustion)
    /\ Invoking => ~AfterFirstHalt /\ (ecalls # <<>> => Last(ecalls).action = "Continue")
    /\ Invoking => ENABLED invoke_next

\* C38: MiddlewareStack::invoke terminates for every request when each
\* handler call returns: it invokes every registered middleware and every
\* registered error handler at most once, every step leaves fewer passes of
\* its loops, and it returns after the first Halt, after the traversal of
\* the error handlers, or when the list of middlewares is exhausted.
C38_InvokeTerminates ==
    /\ [](AtMostOncePerHandler /\ ReturnsWhenDue)
    /\ [][FewerPasses]_vars
    /\ Invoking ~> (pc = "returned")

\* two middlewares continued and the third, the last of the list, returned
\* an error; two error handlers continued, the third halted, and invoke has
\* returned: every middleware and every error handler was invoked once
C38_Witness ==
    /\ pc = "returned"
    /\ Len(calls) = 3 /\ Len(handlers) = 3
    /\ Len(ecalls) = 3 /\ Len(error_handlers) = 3
    /\ AfterTraversal
    /\ Last(ecalls).action = "Halt"

(***************************************************************************)
(* Properties of Server::handle_request                                    *)
(***************************************************************************)
\* the router is consulted, and a route handler called, only in the step
\* that follows the return of invoke
RouterAfterInvoke ==
    /\ (matched' # matched /\ matched' # <<>>) => pc = "returned" /\ pc' = "served"
    /\ (hcalls' # hcalls /\ hcalls' # <<>>) => pc = "returned" /\ pc' = "served"

\* while invoke runs, and when it has returned, the router was not asked
\* and no route handler was called for the request
NothingBeforeReturn ==
    pc \in {"handlers", "error_handlers", "returned"} => matched = <<>> /\ hcalls = <<>>

\* the routes of the server's router that accept the request
ServerAccepting ==
    IF req[1].uri.abs THEN Accepting(router, req[1].method, req[1].uri.url) ELSE {}

\* when handle_request has returned and a route matched, the handler of the
\* first matching route was called exactly once, and it saw the status Ok and
\* the parameters of the match in the request
MatchedHandlerOnce ==
    (pc = "served" /\ ServerAccepting # {}) =>
        /\ Len(hcalls) = 1
        /\ hcalls[1].route \in ServerAccepting
        /\ \A y \in ServerAccepting : hcalls[1].route <= y
        /\ hcalls[1].handler = router[hcalls[1].route].handler
        /\ hcalls[1].status = "Ok"
        /\ matched # <<>> /\ matched[1].result.found
        /\ hcalls[1].params = matched[1].result.params
        /\ req[1].params = matched[1].result.params
        /\ res # <<>> /\ res[1].status = "Ok"
        /\ Last(res[1].marks) = hcalls[1].handler

\* when handle_request has returned and no route matched, no handler was called
NoMatchNoHandler ==
    (pc = "served" /\ ServerAccepting = {}) => hcalls = <<>>

\* the step after invoke leaves the request and the response as they are
\* when no route matches
NoMatchNoChange ==
    (pc = "returned" /\ pc' = "served" /\ ServerAccepting = {}) =>
        /\ res' = res /\ req' = req /\ err' = err
        /\ ended' = ended /\ calls' = calls

\* C39: in Server::handle_request the router is consulted only after the
\* invoke of the middleware stack has returned; the handler of the first
\* matching route is then called exactly once, with the status set to Ok
\* and the parameters stored before the call; when no route matches no
\* handler runs and the status of the response is left as it was.
C39_RouteAfterStack ==
    /\ [](NothingBeforeReturn /\ MatchedHandlerOnce /\ NoMatchNoHandler)
    /\ [][RouterAfterInvoke /\ NoMatchNoChange]_vars

\* two middlewares ran and changed the status, invoke returned, and then the
\* second of two routes, the first that matches, got the request with its
\* parameter and the status Ok
C39_Witness ==
    /\ pc = "served"
    /\ Len(calls) = 2
    /\ calls[2].result.tag = "Continue"
    /\ calls[2].result.res[1].status = "Accepted"
    /\ Len(router) = 2
    /\ ServerAccepting = {2}
    /\ Len(hcalls) = 1
    /\ hcalls[1].route = 2
    /\ hcalls[1].params # <<>>
    /\ hcalls[1].status = "Ok"

====
